---- MODULE Spec2Model ----
(***************************************************************************)
(* Model of the inventory planner of src/forecasting-dashboard-project/    *)
(* src/App.js: the App component's state, its handlers and effects, the    *)
(* ABC classifier, the replenishment engine (processedData) and the        *)
(* selectors built on it (filteredPurchaseRecommendations, kpiValues).     *)
(*                                                                         *)
(* Numbers.  The engine works on JavaScript doubles.  Every quantity it    *)
(* rounds is a rational or the square root of a rational of the integer    *)
(* inputs, so the model computes each Math.round exactly on integers:      *)
(*   avgDailySales      = sum / n                                          *)
(*   variance           = (n * sumSq - sum^2) / (n * (n - 1))              *)
(*   Z                  = SERVICE_LEVEL_Z / ZScale                         *)
(* On the record sets and slider settings of this model the doubles round  *)
(* as the exact values do (no product lands on a half that the binary      *)
(* representation of 1 + change/100 or of Z would tip the other way).      *)
(* Prices and costs are counted in 1/PriceScale of the currency unit, the   *)
(* unit in which robustParseFloat is modelled; the products and sums of    *)
(* the KPI layer are stated on these exact values.                         *)
(***************************************************************************)
EXTENDS Integers, Sequences, FiniteSets, TLC

\* ---------------------------------------------------------------- bounds

\* Largest unitsSold of one record of the engine's input space.
MaxUnits == 2
\* Most sheet fetches in flight at once.
MaxInflight == 1
\* Days the clock advances while the dashboard is open.
MaxDay == 2
\* Most token requests, and most client initialisations, pending at once.
MaxPending == 1
\* Most characters of a numeric cell of the fetched sheet.
MaxCell == 3

\* ------------------------------------------------------ program constants

\* for (let i = 1; i <= 120; i++)
Horizon == 120
\* const reviewPeriod = 30
reviewPeriod == 30
\* SERVICE_LEVEL_Z holds Z * ZScale, an integer for all four table entries.
ZScale == 200
\* useState(98), and the fallback "|| 2.05" is the table's entry for 98.
DefaultServiceLevel == 98
\* ScenarioControl min / max / step of the three sliders.
ServiceLevelMin == 90
ServiceLevelMax == 99
ChangeMin == -50
ChangeMax == 50
ChangeStep == 5

ServiceLevels == ServiceLevelMin..ServiceLevelMax
ChangeValues == {v \in ChangeMin..ChangeMax : v % ChangeStep = 0}

\* The date key 'Today' of the first projection entry, told apart from the
\* day numbers that stand for the ISO date keys.
Today == 999

\* The empty string of a sku, parentItem, vendor or URL.
Empty == ""
\* A date is the number of its day; the empty date cell (row[0] || '') is day 0.
NoDate == 0

VARIABLES
    data,               \* useState([]): the record set, a sequence of records
    error,              \* useState(null): "null" or the message shown
    sheetUrl,           \* useState(''): Empty, "valid" or "invalid"
    isAuthorized,       \* useState(false)
    activeSKUs,         \* useState([]): the selected SKUs, in selection order
    serviceLevel,       \* useState(98)
    leadTimeChange,     \* useState(0)
    demandChange,       \* useState(0)
    vendorFilter,       \* useState('All')
    abcClassification,  \* useState({}): SKU -> "A" | "B" | "C"
    inflight,           \* sheet fetches started and not yet answered
    now,                \* new Date(): the day it is, counted from the first render
    computedAt,         \* the day the processedData memo last ran
    apiKey,             \* useState(''): Empty or "key"
    clientId,           \* useState(''): Empty or "id"
    rememberMe,         \* useState(false)
    authClientReady,    \* useState(false)
    gapiReady,          \* useState(false)
    gisReady,           \* useState(false)
    expandedCategories, \* useState({}): category -> BOOLEAN
    storage,            \* localStorage 'forecastAiCredsV2': NoCreds or the saved record
    pendingToken,       \* requestAccessToken calls not yet answered
    pendingInit,        \* gapi.client.init calls not yet settled
    loggedOut           \* history: handleLogout has run and Connect & Authorize
                        \* has not been clicked since

\* The login state a settling gapi.client.init leaves alone.
loginVarsButInit == <<apiKey, clientId, rememberMe, authClientReady, gapiReady,
                      gisReady, expandedCategories, storage, pendingToken,
                      loggedOut>>

\* The state of the login screen and of the authorisation in progress.
loginVars == <<apiKey, clientId, rememberMe, authClientReady, gapiReady,
               gisReady, expandedCategories, storage, pendingToken,
               pendingInit, loggedOut>>

vars == <<data, error, sheetUrl, isAuthorized, activeSKUs, serviceLevel,
          leadTimeChange, demandChange, vendorFilter, abcClassification,
          inflight, now, computedAt, apiKey, clientId, rememberMe,
          authClientReady, gapiReady, gisReady, expandedCategories, storage,
          pendingToken, pendingInit, loggedOut>>

\* localStorage.getItem('forecastAiCredsV2') of an absent item.
NoCreds == [apiKey |-> "", clientId |-> "", sheetUrl |-> "", saved |-> FALSE]

\* JSON.stringify({ apiKey, clientId, sheetUrl }) as stored.
Creds(key, id, url) == [apiKey |-> key, clientId |-> id, sheetUrl |-> url, saved |-> TRUE]

\* ---------------------------------------------------------------- helpers

Range(s) == {s[i] : i \in 1..Len(s)}

Max(a, b) == IF a >= b THEN a ELSE b

\* Math.round(num / den) for den > 0: the nearest integer, halves upwards.
Round(num, den) == (2 * num + den) \div (2 * den)

RECURSIVE RoundHalfSqrtFrom(_, _, _)
RoundHalfSqrtFrom(k, num, den) ==
    IF (2 * k + 1) * (2 * k + 1) <= num \div den
        THEN RoundHalfSqrtFrom(k + 1, num, den)
        ELSE k

\* Math.round(Math.sqrt(num / den) / 2) for num >= 0, den > 0: the largest k
\* with k = 0 or (2k - 1)^2 * den <= num.
RoundHalfSqrt(num, den) == RoundHalfSqrtFrom(0, num, den)

\* The sum of s[lo..hi] (whole numbers: the order of the additions is free, and
\* the range is halved to keep the evaluation shallow).
RECURSIVE SumBetween(_, _, _)
SumBetween(s, lo, hi) ==
    IF lo > hi THEN 0
    ELSE IF lo = hi THEN s[lo]
    ELSE LET mid == (lo + hi) \div 2
         IN SumBetween(s, lo, mid) + SumBetween(s, mid + 1, hi)

\* reduce((sum, val) => sum + val, 0)
SumSeq(s) == SumBetween(s, 1, Len(s))

RECURSIVE SumSquares(_)
SumSquares(s) == IF s = <<>> THEN 0 ELSE Head(s) * Head(s) + SumSquares(Tail(s))

\* A record with date d goes before the first record whose date is later:
\* Array.prototype.sort is stable, so equal dates keep their sheet order.
RECURSIVE InsertByDate(_, _)
InsertByDate(sorted, d) ==
    IF sorted = <<>> THEN <<d>>
    ELSE IF sorted[Len(sorted)].date <= d.date THEN Append(sorted, d)
    ELSE Append(InsertByDate(SubSeq(sorted, 1, Len(sorted) - 1), d),
                sorted[Len(sorted)])

RECURSIVE SortByDate(_)
SortByDate(s) ==
    IF s = <<>> THEN <<>>
    ELSE InsertByDate(SortByDate(SubSeq(s, 1, Len(s) - 1)), s[Len(s)])

\* ------------------------------------------------- replenishment engine

\* Variant of SERVICE_LEVEL_Z without the fallback of a missing entry.
SERVICE_LEVEL_Z_Entries(sl) ==
    CASE sl = 90 -> 256
      [] sl = 95 -> 329
      [] sl = 98 -> 410
      [] sl = 99 -> 466
      [] OTHER -> 0

\* SERVICE_LEVEL_Z[serviceLevel] || 2.05, times ZScale.
SERVICE_LEVEL_Z(sl) ==
    CASE sl = 90 -> 256
      [] sl = 95 -> 329
      [] sl = 98 -> 410
      [] sl = 99 -> 466
      [] OTHER -> 410

\* Variant of skuData that keeps the records without a date.
skuDataUndated(sku) == SortByDate(SelectSeq(data, LAMBDA d : d.sku = sku))

\* data.filter(d => d.sku === sku && d.date).sort(by date ascending)
skuData(sku) == SortByDate(SelectSeq(data, LAMBDA d : d.sku = sku /\ d.date # NoDate))

dailySales(d) == [i \in 1..Len(d) |-> d[i].unitsSold]

\* avgDailySales is salesSum / n; it is kept as that pair.
salesSum(d) == SumSeq(dailySales(d))

\* variance = sum((val - avg)^2) / (n - 1) = varianceNum / varianceDen
\* Variant of varianceNum that takes the sum off, not its square.
varianceNumOffSum(d) == Len(d) * SumSquares(dailySales(d)) - salesSum(d)

varianceNum(d) == Len(d) * SumSquares(dailySales(d)) - salesSum(d) * salesSum(d)
\* Variant of varianceDen that divides by n, the variance of a population.
varianceDenPopulation(d) == Len(d) * Len(d)

varianceDen(d) == Len(d) * (Len(d) - 1)

\* Math.round(baseLeadTime * (1 + leadTimeChange / 100))
adjustedLeadTime(baseLeadTime, ltc) == Round(baseLeadTime * (100 + ltc), 100)

\* Math.round(Z * stdDevDailySales * Math.sqrt(adjustedLeadTime))
\*   = round(sqrt(Z200^2 * varianceNum * alt / (10000 * varianceDen)) / 2)
safetyStock(sl, vNum, vDen, alt) ==
    RoundHalfSqrt(SERVICE_LEVEL_Z(sl) * SERVICE_LEVEL_Z(sl) * vNum * alt,
                  ((ZScale * ZScale) \div 4) * vDen)

\* Variant of reorderPoint that takes the safety stock off the lead-time demand.
reorderPointLessSafety(sum, n, alt, ss) == Round(sum * alt - ss * n, n)

\* Math.round((avgDailySales * adjustedLeadTime) + safetyStock)
reorderPoint(sum, n, alt, ss) == Round(sum * alt + ss * n, n)

\* Math.round(reorderPoint + (avgDailySales * reviewPeriod))
maxStock(rp, sum, n) == Round(rp * n + sum * reviewPeriod, n)

\* Variant of purchaseRecommendation that reorders only below the reorder point.
purchaseRecommendationBelow(currentInventory, rp, ms) ==
    IF currentInventory < rp THEN ms - currentInventory ELSE 0

\* let purchaseRecommendation = 0;
\* if (currentInventory <= reorderPoint) purchaseRecommendation = maxStock - currentInventory
purchaseRecommendation(currentInventory, rp, ms) ==
    IF currentInventory <= rp THEN ms - currentInventory ELSE 0

\* Variant of forecastedUnits that leaves the demand change out.
forecastedUnitsUnscaled(sum, n, dc) == Max(0, Round(sum, n))

\* Math.max(0, Math.round(avgDailySales * (1 + demandChange / 100)))
forecastedUnits(sum, n, dc) == Max(0, Round(sum * (100 + dc), 100 * n))

\* forecastDate.setDate(forecastDate.getDate() + i) from new Date() on a day,
\* as the number of the day its ISO date key names.
dateKey(day, i) == day + i

\* The date key of day i of the memo's last run (a run falls within one day).
forecastDate(i) == dateKey(computedAt, i)

\* Variant of projectionStep that lands the replenishment a day late.
projectionStepDayLate(i, projectedInventory, units, alt, pr) ==
    IF i = alt + 1 /\ pr > 0
        THEN projectedInventory - units + pr
        ELSE projectedInventory - units

\* Variant of projectionStep that lands the replenishment on each day from the
\* adjusted lead time on.
projectionStepRepeated(i, projectedInventory, units, alt, pr) ==
    IF i >= alt /\ pr > 0
        THEN projectedInventory - units + pr
        ELSE projectedInventory - units

\* One turn of the loop body on projectedInventory:
\*   projectedInventory -= forecastedUnits;
\*   if (i === adjustedLeadTime && purchaseRecommendation > 0)
\*       projectedInventory += purchaseRecommendation;
projectionStep(i, projectedInventory, units, alt, pr) ==
    IF i = alt /\ pr > 0
        THEN projectedInventory - units + pr
        ELSE projectedInventory - units

\* The entries pushed by the turns lo..hi of the loop, entered with
\* projectedInventory; the turns run in order, each on the inventory the turn
\* before it left (the range is halved to keep the evaluation shallow).
\*   inventoryProjectionData.push({date, inventory: Math.round(projectedInventory)})
RECURSIVE projectionLoop(_, _, _, _, _, _)
projectionLoop(lo, hi, projectedInventory, units, alt, pr) ==
    IF lo > hi THEN <<>>
    ELSE IF lo = hi THEN
        <<[date |-> forecastDate(lo),
           inventory |-> projectionStep(lo, projectedInventory, units, alt, pr)]>>
    ELSE LET mid  == (lo + hi) \div 2
             left == projectionLoop(lo, mid, projectedInventory, units, alt, pr)
         IN left \o projectionLoop(mid + 1, hi, left[Len(left)].inventory,
                                   units, alt, pr)

\* inventoryProjectionData: [{date: 'Today', inventory: currentInventory}]
\* and one entry pushed per day 1..120.
inventoryProjectionData(currentInventory, units, alt, pr) ==
    <<[date |-> Today, inventory |-> currentInventory]>>
        \o projectionLoop(1, Horizon, currentInventory, units, alt, pr)

\* forecast: one entry pushed per day 1..120.
forecast(units) ==
    [i \in 1..Horizon |-> [date |-> forecastDate(i), ForecastedUnits |-> units]]

\* Variant of skuScalarsAt whose reorder point follows the demand slider.
skuScalarsDemandScaled(d, sl, ltc, dc) ==
    LET n   == Len(d)
        sum == salesSum(d)
        alt == adjustedLeadTime(d[1].leadTime, ltc)
        ss  == safetyStock(sl, varianceNum(d), varianceDen(d), alt)
        rp  == reorderPoint(sum * (100 + dc), 100 * n, alt, ss)
        ms  == maxStock(rp, sum, n)
        cur == d[n].currentInventory
    IN [adjustedLeadTime |-> alt, safetyStock |-> ss, reorderPoint |-> rp,
        maxStock |-> ms, currentInventory |-> cur,
        purchaseRecommendation |-> purchaseRecommendation(cur, rp, ms),
        forecastedUnits |-> forecastedUnits(sum, n, dc)]

\* The scalars of one SKU, from its sorted records d (Len(d) >= 2), when the
\* sliders read sl (serviceLevel), ltc (leadTimeChange) and dc (demandChange).
skuScalarsAt(d, sl, ltc, dc) ==
    LET n   == Len(d)
        sum == salesSum(d)
        alt == adjustedLeadTime(d[1].leadTime, ltc)
        ss  == safetyStock(sl, varianceNum(d), varianceDen(d), alt)
        rp  == reorderPoint(sum, n, alt, ss)
        ms  == maxStock(rp, sum, n)
        cur == d[n].currentInventory
    IN [adjustedLeadTime |-> alt, safetyStock |-> ss, reorderPoint |-> rp,
        maxStock |-> ms, currentInventory |-> cur,
        purchaseRecommendation |-> purchaseRecommendation(cur, rp, ms),
        forecastedUnits |-> forecastedUnits(sum, n, dc)]

\* The scalars of one SKU at the sliders' values of the state.
skuScalars(d) == skuScalarsAt(d, serviceLevel, leadTimeChange, demandChange)

\* Twice avgInventoryValue = ((maxStock + safetyStock) / 2) * unitCost.
avgInventoryValue2(ms, ss, unitCost) == (ms + ss) * unitCost

\* Variant of inventoryTurns that divides whatever the inventory value is.
inventoryTurnsUnguarded(sum, n, ms, ss, unitCost) ==
    [num |-> 2 * sum * 365 * unitCost, den |-> n * avgInventoryValue2(ms, ss, unitCost)]

\* inventoryTurns = avgInventoryValue > 0 ? annualCOGS / avgInventoryValue : 0,
\* as the fraction num / den: annualCOGS is (sum / n) * 365 * unitCost.
inventoryTurns(sum, n, ms, ss, unitCost) ==
    IF avgInventoryValue2(ms, ss, unitCost) > 0
        THEN [num |-> 2 * sum * 365 * unitCost,
              den |-> n * avgInventoryValue2(ms, ss, unitCost)]
        ELSE [num |-> 0, den |-> 1]

\* results[sku] without its two series: { safetyStock, reorderPoint, maxStock,
\* purchaseRecommendation, inventoryTurns, vendor, unitCost, unitPrice }, from
\* the sorted records d of the SKU and the scalars m of its forEach turn.
skuMetricsOf(d, m) ==
    [safetyStock |-> m.safetyStock, reorderPoint |-> m.reorderPoint,
     maxStock |-> m.maxStock,
     purchaseRecommendation |-> m.purchaseRecommendation,
     inventoryTurns |-> inventoryTurns(salesSum(d), Len(d), m.maxStock,
                                       m.safetyStock, d[1].unitCost),
     vendor |-> d[1].vendor, unitCost |-> d[1].unitCost,
     unitPrice |-> d[1].unitPrice]

\* results[sku] at the sliders' values of the state.
skuMetrics(d) == skuMetricsOf(d, skuScalars(d))

\* if (data.length === 0 || activeSKUs.length === 0) return null
processedDataIsNull == Len(data) = 0 \/ Len(activeSKUs) = 0

\* The keys of results: activeSKUs.forEach skips a SKU with skuData.length < 2.
computedSKUs ==
    IF processedDataIsNull THEN {}
    ELSE {sku \in Range(activeSKUs) : Len(skuData(sku)) >= 2}

\* The results object the memo computes when the sliders read sl, ltc and dc
\* (the empty function also stands for null).
processedDataAt(sl, ltc, dc) ==
    [sku \in computedSKUs |->
        skuMetricsOf(skuData(sku), skuScalarsAt(skuData(sku), sl, ltc, dc))]

\* The memoized results object (the empty function also stands for null).
processedData == [sku \in computedSKUs |-> skuMetrics(skuData(sku))]

\* The locals of the forEach turn of a computed SKU.
locals(sku) == skuScalars(skuData(sku))

\* results[sku].forecast and results[sku].inventoryProjectionData.
processedForecast(sku) == forecast(locals(sku).forecastedUnits)

processedProjection(sku) ==
    LET m == locals(sku)
    IN inventoryProjectionData(m.currentInventory, m.forecastedUnits,
                               m.adjustedLeadTime, m.purchaseRecommendation)

\* Object.entries(processedData): the keys in the order activeSKUs.forEach set them.
processedOrder == SelectSeq(activeSKUs, LAMBDA sku : sku \in computedSKUs)

\* -------------------------------------------------------- ABC classifier

\* The keys of salesBySKU in the order data.reduce sets them: each SKU at its
\* first record (if (d.sku) ...; the SKUs are not integer-like strings).
RECURSIVE skuKeys(_)
skuKeys(d) ==
    IF d = <<>> THEN <<>>
    ELSE LET before == skuKeys(SubSeq(d, 1, Len(d) - 1))
             sku == d[Len(d)].sku
         IN IF sku = Empty \/ sku \in Range(before) THEN before
            ELSE Append(before, sku)

\* salesBySKU[sku]: acc[d.sku] = (acc[d.sku] || 0) + d.unitsSold
salesBySKU(d, sku) ==
    SumSeq(dailySales(SelectSeq(d, LAMBDA r : r.sku = sku)))

\* sort(([, a], [, b]) => b - a): stable, so equal totals keep the key order.
RECURSIVE InsertBySales(_, _, _)
InsertBySales(d, sorted, sku) ==
    IF sorted = <<>> THEN <<sku>>
    ELSE IF salesBySKU(d, sorted[Len(sorted)]) >= salesBySKU(d, sku)
        THEN Append(sorted, sku)
    ELSE Append(InsertBySales(d, SubSeq(sorted, 1, Len(sorted) - 1), sku),
                sorted[Len(sorted)])

RECURSIVE SortBySales(_, _)
SortBySales(d, keys) ==
    IF keys = <<>> THEN <<>>
    ELSE InsertBySales(d, SortBySales(d, SubSeq(keys, 1, Len(keys) - 1)),
                       keys[Len(keys)])

\* Variant of sortedSKUs that ranks the SKUs from the least sold up.
sortedSKUsAscending(d) ==
    LET sorted == SortBySales(d, skuKeys(d))
    IN [i \in 1..Len(sorted) |-> sorted[Len(sorted) + 1 - i]]

sortedSKUs(d) == SortBySales(d, skuKeys(d))

\* totalSales = sortedSKUs.reduce((sum, [, sales]) => sum + sales, 0)
totalSales(d) ==
    SumSeq([i \in 1..Len(sortedSKUs(d)) |-> salesBySKU(d, sortedSKUs(d)[i])])

\* Variant of abcClass with the two thresholds excluded.
abcClassBelow(cumulativeSales, total) ==
    IF 5 * cumulativeSales < 4 * total THEN "A"
    ELSE IF 20 * cumulativeSales < 19 * total THEN "B"
    ELSE "C"

\* percentage = cumulativeSales / totalSales compared with 0.8 and 0.95
\* (totalSales is not 0 here; the quotient of two integers is at most 4/5 as a
\* double exactly when it is as a fraction).
abcClass(cumulativeSales, total) ==
    LET atMost(num, den) ==
            IF total > 0 THEN den * cumulativeSales <= num * total
                         ELSE den * cumulativeSales >= num * total
    IN IF atMost(4, 5) THEN "A"
       ELSE IF atMost(19, 20) THEN "B"
       ELSE "C"

\* cumulativeSales after the forEach turn of the i-th sorted SKU.
cumulativeSales(d, sorted, i) ==
    SumSeq([j \in 1..i |-> salesBySKU(d, sorted[j])])

\* The classification object the forEach builds.
classification(d) ==
    LET sorted == sortedSKUs(d)
        total  == totalSales(d)
        pos(sku) == CHOOSE i \in 1..Len(sorted) : sorted[i] = sku
    IN [sku \in Range(sorted) |->
            abcClass(cumulativeSales(d, sorted, pos(sku)), total)]

\* Variant of abcEffect that drops the classification of an empty record set.
abcEffectClearing(d, old) ==
    IF Len(d) = 0 THEN <<>>
    ELSE IF totalSales(d) = 0 THEN old
    ELSE classification(d)

\* The effect on [data]: abcClassification after it ran on record set d.
abcEffect(d, old) ==
    IF Len(d) = 0 THEN old
    ELSE IF totalSales(d) = 0 THEN old
    ELSE classification(d)

\* -------------------------------------------------- selectors and KPIs

\* skuList: the SKUs listed for toggling (item.parentItem && item.sku).
listedSKUs == {data[i].sku : i \in {j \in 1..Len(data) :
                    data[j].parentItem # Empty /\ data[j].sku # Empty}}

\* vendorList = ['All', ...new Set(data.map(d => d.vendor).filter(Boolean))]
vendorList == {"All"} \cup
    {data[i].vendor : i \in {j \in 1..Len(data) : data[j].vendor # Empty}}

\* Variant of filteredPurchaseRecommendations that ignores vendorFilter.
recommendationsOfAllVendors ==
    IF processedDataIsNull THEN <<>>
    ELSE SelectSeq(processedOrder, LAMBDA sku :
            processedData[sku].purchaseRecommendation > 0)

\* The SKUs of the entries the recommendation filter keeps of a results
\* object, in order.
filteredOf(results) ==
    IF processedDataIsNull THEN <<>>
    ELSE SelectSeq(processedOrder, LAMBDA sku :
            /\ results[sku].purchaseRecommendation > 0
            /\ (vendorFilter = "All" \/ results[sku].vendor = vendorFilter))

\* The SKUs of the entries of filteredPurchaseRecommendations, in order.
filteredPurchaseRecommendations == filteredOf(processedData)

\* Variant of totalRevenue that values the day-1 units at unitCost.
totalRevenueAtCost ==
    IF processedDataIsNull THEN 0
    ELSE SumSeq([i \in 1..Len(processedOrder) |->
            LET sku == processedOrder[i]
            IN (processedForecast(sku)[1].ForecastedUnits
                    * processedData[sku].unitCost) * 120])

\* Variant of purchaseValue that sums over every computed SKU.
purchaseValueOfAllComputed ==
    IF processedDataIsNull THEN 0
    ELSE SumSeq([i \in 1..Len(processedOrder) |->
            LET r == processedData[processedOrder[i]]
            IN r.purchaseRecommendation * r.unitCost])

\* The array of the values of f over 1..n, built once.
ArrayOf(f) == <<>> \o f

\* The inventory a series holds under a date key (all its entries of that key).
inventoryAt(series, date) ==
    SumSeq([k \in 1..Len(series) |->
                IF series[k].date = date THEN series[k].inventory ELSE 0])

\* Variant of addSeries that stores a SKU's inventory over what the key holds.
addSeriesOverwriting(combined, series) ==
    LET known == {combined[k].date : k \in 1..Len(combined)}
        fresh == SelectSeq(series, LAMBDA day : day.date \notin known)
        slots == combined \o [k \in 1..Len(fresh) |->
                                [date |-> fresh[k].date, inventory |-> 0]]
        dates == {series[k].date : k \in 1..Len(series)}
    IN ArrayOf([k \in 1..Len(slots) |->
            [date |-> slots[k].date,
             inventory |-> IF slots[k].date \in dates
                             THEN inventoryAt(series, slots[k].date)
                             ELSE slots[k].inventory]])

\* combined after skuMetrics.inventoryProjectionData.forEach(day => ...) of one
\* SKU: a key not yet in combined is appended with inventory 0
\* (Object.values keeps the keys in the order they were set), and every
\* day's inventory is added under its key.
addSeries(combined, series) ==
    LET known == {combined[k].date : k \in 1..Len(combined)}
        fresh == SelectSeq(series, LAMBDA day : day.date \notin known)
        slots == combined \o [k \in 1..Len(fresh) |->
                                [date |-> fresh[k].date, inventory |-> 0]]
    IN ArrayOf([k \in 1..Len(slots) |->
            [date |-> slots[k].date,
             inventory |-> slots[k].inventory
                            + inventoryAt(series, slots[k].date)]])

\* Object.values(processedData).forEach over the SKUs in the given order.
RECURSIVE combinedOf(_)
combinedOf(order) ==
    IF order = <<>> THEN <<>>
    ELSE addSeries(combinedOf(SubSeq(order, 1, Len(order) - 1)),
                   processedProjection(order[Len(order)]))

\* The comparator of the sort: 'Today' first, then new Date(a.date) - new Date(b.date).
compareDays(a, b) ==
    IF a.date = Today THEN -1
    ELSE IF b.date = Today THEN 1
    ELSE a.date - b.date

\* Array.prototype.sort (stable) with compareDays: every entry at the place
\* after the entries sorted before it.
sortDays(entries) ==
    LET n == Len(entries)
        goesBefore(j, i) ==
            \/ compareDays(entries[j], entries[i]) < 0
            \/ compareDays(entries[j], entries[i]) = 0 /\ j < i
        place == ArrayOf([i \in 1..n |->
                    1 + Cardinality({j \in 1..n : j # i /\ goesBefore(j, i)})])
    IN ArrayOf([k \in 1..n |-> entries[CHOOSE i \in 1..n : place[i] = k]])

\* aggregatedInventoryProjection for the entries of processedData in an order.
aggregatedProjectionOf(order) == sortDays(combinedOf(order))

\* aggregatedInventoryProjection ([] without processedData).
aggregatedInventoryProjection ==
    IF processedDataIsNull THEN <<>>
    ELSE aggregatedProjectionOf(processedOrder)

\* The "* 120" of dailyRevenue * 120.
RevenueDays == 120

\* totalRevenue of kpiValues ('0.0M' without processedData).
totalRevenue ==
    IF processedDataIsNull THEN 0
    ELSE SumSeq([i \in 1..Len(processedOrder) |->
            LET sku == processedOrder[i]
                dailySalesOfDay1 ==
                    IF Len(processedForecast(sku)) > 0
                        THEN processedForecast(sku)[1].ForecastedUnits ELSE 0
            IN (dailySalesOfDay1 * processedData[sku].unitPrice) * RevenueDays])

\* purchaseValue of kpiValues, from a results object and the list filtered
\* of it ('0.0k' without processedData).
purchaseValueOf(results, filtered) ==
    IF processedDataIsNull THEN 0
    ELSE SumSeq([i \in 1..Len(filtered) |->
            LET r == results[filtered[i]]
            IN r.purchaseRecommendation * r.unitCost])

\* purchaseValue of kpiValues.
purchaseValue == purchaseValueOf(processedData, filteredPurchaseRecommendations)

\* reorderItems of kpiValues, from the filtered list.
reorderItemsOf(filtered) ==
    IF processedDataIsNull THEN 0 ELSE Len(filtered)

\* reorderItems of kpiValues.
reorderItems == reorderItemsOf(filteredPurchaseRecommendations)

\* ------------------------------------------------------------- the sheets

\* One parsed row of Sheet1!A:J (the object fetchData builds per row).
Row(date, parentItem, sku, unitsSold, unitPrice, unitCost, vendor, currentInventory, leadTime) ==
    [date |-> date, parentItem |-> parentItem, sku |-> sku,
     unitsSold |-> unitsSold, orderCount |-> 1, unitPrice |-> unitPrice,
     unitCost |-> unitCost, vendor |-> vendor,
     currentInventory |-> currentInventory, leadTime |-> leadTime]

\* Shares of exactly 0.80 and 0.95: A1 sells 16 of 20, B2 3, C3 1.  A1 and B2
\* have two dated records; A1 is out of stock, B2's stock is at its reorder
\* point under the initial sliders; C3 has a single record.  The first
\* record of A1 has a unit cost of 0.
SheetPareto ==
    << Row(1, "P1", "A1", 8, 10, 0, "V1", 3, 2),
       Row(1, "P1", "B2", 1, 4, 2, "V2", 7, 4),
       Row(2, "P1", "A1", 8, 11, 6, "V2", 0, 3),
       Row(2, "P1", "B2", 2, 4, 3, "V1", 9, 5),
       Row(1, "P2", "C3", 1, 9, 9, "V2", 0, 1) >>

\* Nothing sold: totalSales is 0.
SheetUnsold ==
    << Row(1, "P1", "A1", 0, 10, 5, "V1", 0, 2),
       Row(2, "P1", "A1", 0, 10, 5, "V1", 0, 2),
       Row(1, "P1", "B2", 0, 4, 2, "V2", 9, 4) >>

\* Cells left empty: A1 has three records and one date; B2's records come
\* latest first and its stock covers the reorder point; one row has no sku;
\* C3 has no parentItem and no vendor, and sells as much as B2.
SheetGaps ==
    << Row(NoDate, "P1", "A1", 4, 10, 5, "V1", 0, 2),
       Row(3, "P1", "B2", 3, 4, 2, "V2", 500, 9),
       Row(1, "P1", "A1", 4, 10, 5, "V1", 0, 2),
       Row(2, "P1", "", 5, 1, 1, "V1", 0, 1),
       Row(1, "P1", "B2", 1, 6, 3, "V1", 2, 4),
       Row(NoDate, "P1", "A1", 4, 10, 5, "V1", 0, 2),
       Row(1, "", "C3", 2, 9, 9, "", 0, 1),
       Row(2, "", "C3", 2, 9, 9, "", 0, 1) >>

\* Ten days of A1 at lead time 7 with 50 in stock.
TenDays == <<10, 12, 8, 11, 9, 10, 13, 9, 10, 8>>

SheetTenDays ==
    [i \in 1..Len(TenDays) |-> Row(i, "P1", "A1", TenDays[i], 10, 5, "V1", 50, 7)]

\* The rows of SheetGaps from the last to the first: C3 comes before B2.
SheetGapsReversed ==
    [i \in 1..Len(SheetGaps) |-> SheetGaps[Len(SheetGaps) + 1 - i]]

\* The record sets a fetch may deliver.
Sheets == {SheetPareto, SheetUnsold, SheetGaps, SheetGapsReversed}

SKUs == {"A1", "B2", "C3"}

\* The engine's input space: one SKU's history, n records on the days 1..n with
\* the given unitsSold, told apart in the fields the engine reads off its
\* first record (leadTime, vendor, unitCost, unitPrice) and off its last
\* (currentInventory); the rows come latest first, after a row of a SKU that
\* is not listed.
EngineSheet(sales, leadTime, inventory) ==
    LET n == Len(sales)
        rec(i) == Row(i, "P1", "A1", sales[i],
                      IF i = 1 THEN 10 ELSE 12, IF i = 1 THEN 5 ELSE 7,
                      IF i = 1 THEN "V1" ELSE "V2",
                      IF i = n THEN inventory ELSE inventory + 40,
                      IF i = 1 THEN leadTime ELSE leadTime + 1)
    IN <<Row(1, "", "B2", 1, 4, 2, "V2", 7, 4)>> \o [i \in 1..n |-> rec(n + 1 - i)]

\* unitsSold histories of two days, as pairs a <= b (the engine reads the
\* sales through their number, their sum and their sum of squares only).
SalesHistories == {h \in [1..2 -> 0..MaxUnits] : h[1] <= h[2]}

\* Base lead times: none, a short one, and one the lead-time slider carries
\* from 50 days to 150, past the 120 days of the projection.
LeadTimes == {0, 2, 100}

\* Stock on hand: none, and a level the reorder point crosses as the sliders move.
Inventories == {0, 100}

\* Service levels of the slider: each entry of the Z table, and one level
\* without an entry (91..94, 96 and 97 all take the same fallback).
ServiceSettings == {90, 91, 95, 98, 99}

\* Demand changes of the slider, a quarter of its range apart.
DemandSettings == {v \in ChangeValues : v % 25 = 0}

EngineSheets ==
    {EngineSheet(h, lt, inv) :
        h \in SalesHistories, lt \in LeadTimes, inv \in Inventories}
    \cup {SheetTenDays}

\* ----------------------------------------------------------- the ingestion

\* 10 to the k.
RECURSIVE Pow10(_)
Pow10(k) == IF k = 0 THEN 1 ELSE 10 * Pow10(k - 1)

\* A number read by robustParseFloat is held as its multiple of 1/PriceScale:
\* a cell of MaxCell characters has at most MaxCell - 1 decimals.
PriceScale == Pow10(MaxCell - 1)

\* A cell of result.values: a string, a number, or undefined past the end of
\* its row.  A string cell of a numeric column is the sequence of its
\* characters (text); one of a text column is its label; the date cell is
\* the number of its day.  A number cell is held as robustParseFloat holds it.
Undefined == [type |-> "undefined", text |-> <<>>, label |-> Empty, number |-> 0]
StringCell(text) == [type |-> "string", text |-> text, label |-> Empty, number |-> 0]
TextCell(label) == [type |-> "string", text |-> <<>>, label |-> label, number |-> 0]
DateCell(day) == [type |-> "string", text |-> <<>>, label |-> Empty, number |-> day]
NumberCell(number) == [type |-> "number", text |-> <<>>, label |-> Empty, number |-> number]

\* !cell
falsy(cell) ==
    \/ cell.type = "undefined"
    \/ cell.type = "string" /\ cell.text = <<>> /\ cell.label = Empty /\ cell.number = NoDate
    \/ cell.type = "number" /\ cell.number = 0

\* row[k - 1]
cellAt(row, k) == IF k <= Len(row) THEN row[k] ELSE Undefined

Digits == <<"0", "1", "2", "3", "4", "5", "6", "7", "8", "9">>

isDigit(c) == \E k \in 1..Len(Digits) : Digits[k] = c

digitOf(c) == (CHOOSE k \in 1..Len(Digits) : Digits[k] = c) - 1

\* The number a run of digits writes.
RECURSIVE decimal(_)
decimal(ds) ==
    IF ds = <<>> THEN 0
    ELSE 10 * decimal(SubSeq(ds, 1, Len(ds) - 1)) + digitOf(ds[Len(ds)])

\* The length of the run of digits a string starts with.
digitsPrefix(str) ==
    LET runs == {n \in 0..Len(str) : \A k \in 1..n : isDigit(str[k])}
    IN CHOOSE n \in runs : \A m \in runs : m <= n

NaN == [isNaN |-> TRUE, value |-> 0]
Number(value) == [isNaN |-> FALSE, value |-> value]

\* parseInt(cleaned, 10): a sign, then the digits up to the first character
\* that is none; NaN without a digit.
parseInt(str) ==
    LET negative == str # <<>> /\ str[1] = "-"
        body == IF negative THEN Tail(str) ELSE str
        n == digitsPrefix(body)
        value == decimal(SubSeq(body, 1, n))
    IN IF n = 0 THEN NaN ELSE Number(IF negative THEN 0 - value ELSE value)

\* parseFloat(cleaned), times PriceScale: a sign, digits, and a point with
\* digits, up to the first character that fits no more; NaN without a digit.
parseFloat(str) ==
    LET negative == str # <<>> /\ str[1] = "-"
        body == IF negative THEN Tail(str) ELSE str
        n == digitsPrefix(body)
        rest == SubSeq(body, n + 1, Len(body))
        decimals == IF rest # <<>> /\ rest[1] = "." THEN Tail(rest) ELSE <<>>
        f == digitsPrefix(decimals)
        value == decimal(SubSeq(body, 1, n)) * PriceScale
                    + decimal(SubSeq(decimals, 1, f)) * Pow10(MaxCell - 1 - f)
    IN IF n = 0 /\ f = 0 THEN NaN ELSE Number(IF negative THEN 0 - value ELSE value)

\* value.replace(/[^0-9.-]+/g, "")
cleanedFloat(text) == SelectSeq(text, LAMBDA c : isDigit(c) \/ c = "." \/ c = "-")

\* value.replace(/[^0-9-]+/g, "")
cleanedInt(text) == SelectSeq(text, LAMBDA c : isDigit(c) \/ c = "-")

robustParseFloat(value) ==
    IF value.type = "number" THEN value.number
    ELSE IF value.type # "string" THEN 0
    ELSE LET num == parseFloat(cleanedFloat(value.text))
         IN IF num.isNaN THEN 0 ELSE num.value

robustParseInt(value) ==
    IF value.type = "number" THEN Round(value.number, PriceScale)
    ELSE IF value.type # "string" THEN 0
    ELSE LET num == parseInt(cleanedInt(value.text))
         IN IF num.isNaN THEN 0 ELSE num.value

\* row.length === 0 || row.every(cell => !cell): the row is skipped.
skipped(row) == \A k \in 1..Len(row) : falsy(row[k])

\* The object a row of the sheet becomes.
parsedRow(row) ==
    [date |-> cellAt(row, 1).number,
     parentItem |-> cellAt(row, 2).label,
     sku |-> cellAt(row, 3).label,
     unitsSold |-> robustParseInt(cellAt(row, 4)),
     orderCount |-> robustParseInt(cellAt(row, 5)),
     unitPrice |-> robustParseFloat(cellAt(row, 6)),
     unitCost |-> robustParseFloat(cellAt(row, 7)),
     vendor |-> cellAt(row, 8).label,
     currentInventory |-> robustParseInt(cellAt(row, 9)),
     leadTime |-> robustParseInt(cellAt(row, 10))]

\* result.values.slice(1).map(...).filter(Boolean)
parsedData(rows) ==
    LET kept == SelectSeq(rows, LAMBDA row : ~skipped(row))
    IN [i \in 1..Len(kept) |-> parsedRow(kept[i])]

expectedHeader ==
    <<"date", "parentItem", "sku", "unitsSold", "orderCount", "unitPrice",
      "unitCost", "vendor", "currentInventory", "leadTime">>

\* h.trim() of the header cells that occur.
trim(h) == IF h = " date " THEN "date" ELSE h

\* result.values[0].map(h => h.trim())
header(response) == [k \in 1..Len(response.header) |-> trim(response.header[k])]

\* What the request to the Sheets API comes back with: it throws, or it
\* resolves to a result whose values, if it has any, are a header row of
\* strings followed by rows of cells.
Throws == [throws |-> TRUE, hasValues |-> FALSE, header |-> <<>>, rows |-> <<>>]
NoValues == [throws |-> FALSE, hasValues |-> FALSE, header |-> <<>>, rows |-> <<>>]
Values(headerRow, rows) == [throws |-> FALSE, hasValues |-> TRUE, header |-> headerRow, rows |-> rows]

\* A record of a sheet as the row of number and string cells it is read from.
RawRow(d) ==
    << DateCell(d.date), TextCell(d.parentItem), TextCell(d.sku),
       NumberCell(d.unitsSold * PriceScale), NumberCell(d.orderCount * PriceScale),
       NumberCell(d.unitPrice), NumberCell(d.unitCost), TextCell(d.vendor),
       NumberCell(d.currentInventory * PriceScale),
       NumberCell(d.leadTime * PriceScale) >>

RawSheet(sheet) == [i \in 1..Len(sheet) |-> RawRow(sheet[i])]

\* ------------------------------------------------------------- the actions

NoError == "null"

\* The login state of a dashboard that is open: the scripts are loaded, the
\* credentials typed and not remembered, and no authorisation is pending.
LoggedIn ==
    /\ apiKey = "key"
    /\ clientId = "id"
    /\ rememberMe = FALSE
    /\ authClientReady = TRUE
    /\ gapiReady = TRUE
    /\ gisReady = TRUE
    /\ expandedCategories = <<>>
    /\ storage = NoCreds
    /\ pendingToken = 0
    /\ pendingInit = 0
    /\ loggedOut = FALSE

Init ==
    /\ data = <<>>
    /\ error = NoError
    /\ sheetUrl = Empty
    /\ isAuthorized = FALSE
    /\ activeSKUs = <<>>
    /\ serviceLevel = DefaultServiceLevel
    /\ leadTimeChange = 0
    /\ demandChange = 0
    /\ vendorFilter = "All"
    /\ abcClassification = <<>>
    /\ inflight = 0
    /\ now = 0
    /\ computedAt = 0
    /\ apiKey = Empty
    /\ clientId = Empty
    /\ rememberMe = FALSE
    /\ authClientReady = FALSE
    /\ gapiReady = FALSE
    /\ gisReady = FALSE
    /\ expandedCategories = <<>>
    /\ storage = NoCreds
    /\ pendingToken = 0
    /\ pendingInit = 0
    /\ loggedOut = FALSE

\* The sheet URL input of the login screen: onChange={e => setSheetUrl(e.target.value)}
SetSheetUrl(url) ==
    /\ UNCHANGED loginVars
    /\ ~isAuthorized
    /\ url # sheetUrl
    /\ sheetUrl' = url
    /\ UNCHANGED <<data, error, isAuthorized, activeSKUs, serviceLevel,
                   leadTimeChange, demandChange, vendorFilter,
                   abcClassification, inflight>>
    /\ UNCHANGED <<now, computedAt>>

\* The effect on [gapiReady, gisReady, clientId, apiKey]: the token client is
\* built once both scripts are loaded and both credentials are typed.
authClientEffect(gapi, gis, id, key) == gapi /\ gis /\ id # Empty /\ key # Empty

\* The button is disabled={!authClientReady || !sheetUrl || !apiKey || !clientId}.
connectEnabled ==
    authClientReady /\ sheetUrl # Empty /\ apiKey # Empty /\ clientId # Empty

\* scriptGapi.onload and window.gapi.load('client', () => setGapiReady(true)).
GapiLoaded ==
    /\ ~gapiReady
    /\ gapiReady' = TRUE
    /\ authClientReady' = authClientEffect(TRUE, gisReady, clientId, apiKey)
    /\ UNCHANGED <<data, error, sheetUrl, isAuthorized, activeSKUs, serviceLevel,
                   leadTimeChange, demandChange, vendorFilter,
                   abcClassification, inflight, now, computedAt>>
    /\ UNCHANGED <<apiKey, clientId, rememberMe, gisReady, expandedCategories,
                   storage, pendingToken, pendingInit, loggedOut>>

\* scriptGis.onload = () => setGisReady(true)
GisLoaded ==
    /\ ~gisReady
    /\ gisReady' = TRUE
    /\ authClientReady' = authClientEffect(gapiReady, TRUE, clientId, apiKey)
    /\ UNCHANGED <<data, error, sheetUrl, isAuthorized, activeSKUs, serviceLevel,
                   leadTimeChange, demandChange, vendorFilter,
                   abcClassification, inflight, now, computedAt>>
    /\ UNCHANGED <<apiKey, clientId, rememberMe, gapiReady, expandedCategories,
                   storage, pendingToken, pendingInit, loggedOut>>

\* The API key input of the login screen: onChange={e => setApiKey(e.target.value)}
SetApiKey(value) ==
    /\ ~isAuthorized
    /\ value # apiKey
    /\ apiKey' = value
    /\ authClientReady' = authClientEffect(gapiReady, gisReady, clientId, value)
    /\ UNCHANGED <<data, error, sheetUrl, isAuthorized, activeSKUs, serviceLevel,
                   leadTimeChange, demandChange, vendorFilter,
                   abcClassification, inflight, now, computedAt>>
    /\ UNCHANGED <<clientId, rememberMe, gapiReady, gisReady, expandedCategories,
                   storage, pendingToken, pendingInit, loggedOut>>

\* value.substring(0, value.indexOf(' ')).trim() of the client ids that can be
\* typed: what follows the first space is cut off.
clientIdTyped(value) ==
    CASE value = "id" -> "id"
      [] value = "id pasted" -> "id"
      [] OTHER -> Empty

\* The client id input of the login screen.
handleClientIdChange(value) ==
    /\ ~isAuthorized
    /\ clientIdTyped(value) # clientId
    /\ clientId' = clientIdTyped(value)
    /\ authClientReady' = authClientEffect(gapiReady, gisReady, clientIdTyped(value), apiKey)
    /\ UNCHANGED <<data, error, sheetUrl, isAuthorized, activeSKUs, serviceLevel,
                   leadTimeChange, demandChange, vendorFilter,
                   abcClassification, inflight, now, computedAt>>
    /\ UNCHANGED <<apiKey, rememberMe, gapiReady, gisReady, expandedCategories,
                   storage, pendingToken, pendingInit, loggedOut>>

\* The Remember Credentials checkbox: onChange={e => setRememberMe(e.target.checked)}
SetRememberMe(checked) ==
    /\ ~isAuthorized
    /\ checked # rememberMe
    /\ rememberMe' = checked
    /\ UNCHANGED <<data, error, sheetUrl, isAuthorized, activeSKUs, serviceLevel,
                   leadTimeChange, demandChange, vendorFilter,
                   abcClassification, inflight, now, computedAt>>
    /\ UNCHANGED <<apiKey, clientId, authClientReady, gapiReady, gisReady,
                   expandedCategories, storage, pendingToken, pendingInit,
                   loggedOut>>

\* Variant of handleAuthClick that stores the credentials at every click.
handleAuthClickStoring ==
    /\ ~isAuthorized
    /\ connectEnabled
    /\ storage' = Creds(apiKey, clientId, sheetUrl)
    /\ loggedOut' = FALSE
    /\ pendingToken < MaxPending
    /\ pendingToken' = pendingToken + 1
    /\ error' = NoError
    /\ UNCHANGED <<data, sheetUrl, isAuthorized, activeSKUs, serviceLevel,
                   leadTimeChange, demandChange, vendorFilter,
                   abcClassification, inflight, now, computedAt>>
    /\ UNCHANGED <<apiKey, clientId, rememberMe, authClientReady, gapiReady,
                   gisReady, expandedCategories, pendingInit>>

\* handleAuthClick, the click on Connect & Authorize: the credentials are
\* stored or removed and a token is requested.
handleAuthClick ==
    /\ ~isAuthorized
    /\ connectEnabled
    /\ storage' = IF rememberMe THEN Creds(apiKey, clientId, sheetUrl) ELSE NoCreds
    /\ loggedOut' = FALSE
    /\ IF authClientReady
          THEN /\ pendingToken < MaxPending
               /\ pendingToken' = pendingToken + 1
               /\ error' = NoError
          ELSE /\ pendingToken' = pendingToken
               /\ error' = "Authentication client not ready. Please wait or check credentials."
    /\ UNCHANGED <<data, sheetUrl, isAuthorized, activeSKUs, serviceLevel,
                   leadTimeChange, demandChange, vendorFilter,
                   abcClassification, inflight, now, computedAt>>
    /\ UNCHANGED <<apiKey, clientId, rememberMe, authClientReady, gapiReady,
                   gisReady, expandedCategories, pendingInit>>

\* The callback of initTokenClient up to its await: a response with an error
\* ends it, any other starts gapi.client.init.  The effect on [isAuthorized,
\* sheetUrl] returns at !isAuthorized.
TokenResponse(hasError) ==
    /\ pendingToken > 0
    /\ pendingToken' = pendingToken - 1
    /\ IF hasError
          THEN /\ error' = "Authorization Error"
               /\ isAuthorized' = FALSE
               /\ pendingInit' = pendingInit
          ELSE /\ pendingInit < MaxPending
               /\ pendingInit' = pendingInit + 1
               /\ UNCHANGED <<error, isAuthorized>>
    /\ UNCHANGED <<data, sheetUrl, activeSKUs, serviceLevel, leadTimeChange,
                   demandChange, vendorFilter, abcClassification, inflight,
                   now, computedAt>>
    /\ UNCHANGED <<apiKey, clientId, rememberMe, authClientReady, gapiReady,
                   gisReady, expandedCategories, storage, loggedOut>>

\* Variant of ClientInitFails that lets the user in all the same.
ClientInitFailsOpen ==
    /\ pendingInit > 0
    /\ pendingInit' = pendingInit - 1
    /\ error' = "API Initialization Error: Check your API Key."
    /\ isAuthorized' = TRUE
    /\ UNCHANGED <<data, sheetUrl, activeSKUs, serviceLevel, leadTimeChange,
                   demandChange, vendorFilter, abcClassification, inflight,
                   now, computedAt>>
    /\ UNCHANGED loginVarsButInit

\* gapi.client.init rejects: catch (initErr) sets the error.
ClientInitFails ==
    /\ pendingInit > 0
    /\ pendingInit' = pendingInit - 1
    /\ error' = "API Initialization Error: Check your API Key."
    /\ UNCHANGED <<data, sheetUrl, isAuthorized, activeSKUs, serviceLevel,
                   leadTimeChange, demandChange, vendorFilter,
                   abcClassification, inflight, now, computedAt>>
    /\ UNCHANGED loginVarsButInit

\* gapi.client.init resolves: setIsAuthorized(true); when that changes
\* isAuthorized, the effect on [isAuthorized, sheetUrl] starts fetchData,
\* which returns at an empty URL, stops with an error at a URL that does not
\* match, and otherwise sends the request.
ClientInitSucceeds ==
    /\ pendingInit > 0
    /\ pendingInit' = pendingInit - 1
    /\ isAuthorized' = TRUE
    /\ IF isAuthorized \/ sheetUrl = Empty
          THEN UNCHANGED <<error, inflight>>
          ELSE IF sheetUrl = "invalid"
                  THEN error' = "Invalid Google Sheet URL format." /\ inflight' = inflight
                  ELSE inflight < MaxInflight /\ inflight' = inflight + 1 /\ error' = error
    /\ UNCHANGED <<data, sheetUrl, activeSKUs, serviceLevel, leadTimeChange,
                   demandChange, vendorFilter, abcClassification, now,
                   computedAt>>
    /\ UNCHANGED loginVarsButInit

\* Connect & Authorize, answered with a token and a client initialisation that
\* succeed: setError(null), setIsAuthorized(true), and the effect on
\* [isAuthorized, sheetUrl] starts fetchData, which stops at a URL that does
\* not match and otherwise sends the request.
Authorize ==
    /\ ~isAuthorized
    /\ connectEnabled
    /\ storage' = IF rememberMe THEN Creds(apiKey, clientId, sheetUrl) ELSE NoCreds
    /\ loggedOut' = FALSE
    /\ UNCHANGED <<apiKey, clientId, rememberMe, authClientReady, gapiReady,
                   gisReady, expandedCategories, pendingToken, pendingInit>>
    /\ isAuthorized' = TRUE
    /\ IF sheetUrl = "invalid"
          THEN error' = "Invalid Google Sheet URL format." /\ inflight' = inflight
          ELSE inflight < MaxInflight /\ error' = NoError /\ inflight' = inflight + 1
    /\ UNCHANGED <<data, sheetUrl, activeSKUs, serviceLevel, leadTimeChange,
                   demandChange, vendorFilter, abcClassification>>
    /\ UNCHANGED <<now, computedAt>>

\* The request is answered with the rows of a sheet: setData(parsedData),
\* setError(null), and the effect on [data] classifies the new record set.
FetchData(sheet) ==
    /\ UNCHANGED loginVars
    /\ inflight > 0
    /\ inflight' = inflight - 1
    /\ data' = sheet
    /\ error' = NoError
    /\ abcClassification' = abcEffect(sheet, abcClassification)
    /\ UNCHANGED <<sheetUrl, isAuthorized, activeSKUs, serviceLevel,
                   leadTimeChange, demandChange, vendorFilter>>
    /\ now' = now
    /\ computedAt' = now

\* Variant of FetchResponds that stores the rows before it looks at the header.
FetchRespondsStoring(response) ==
    /\ inflight > 0
    /\ inflight' = inflight - 1
    /\ IF response.throws
          THEN /\ error' = "Fetch Error."
               /\ UNCHANGED <<data, abcClassification, computedAt>>
          ELSE IF ~response.hasValues \/ 1 + Len(response.rows) < 2
          THEN /\ error' = "No data found in Sheet1. Ensure data starts on row 2."
               /\ UNCHANGED <<data, abcClassification, computedAt>>
          ELSE /\ data' = parsedData(response.rows)
               /\ error' = IF header(response) # expectedHeader
                                THEN "Header mismatch." ELSE NoError
               /\ abcClassification' = abcEffect(parsedData(response.rows), abcClassification)
               /\ computedAt' = now
    /\ now' = now
    /\ UNCHANGED <<sheetUrl, isAuthorized, activeSKUs, serviceLevel,
                   leadTimeChange, demandChange, vendorFilter>>
    /\ UNCHANGED loginVars

\* fetchData from the answer of the Sheets API on: the catch, the two
\* early returns with an error, and setData(parsedData), setError(null), after
\* which the effect on [data] classifies the new record set.
FetchResponds(response) ==
    /\ inflight > 0
    /\ inflight' = inflight - 1
    /\ IF response.throws
          THEN /\ error' = "Fetch Error."
               /\ UNCHANGED <<data, abcClassification, computedAt>>
          ELSE IF ~response.hasValues \/ 1 + Len(response.rows) < 2
          THEN /\ error' = "No data found in Sheet1. Ensure data starts on row 2."
               /\ UNCHANGED <<data, abcClassification, computedAt>>
          ELSE IF header(response) # expectedHeader
          THEN /\ error' = "Header mismatch."
               /\ UNCHANGED <<data, abcClassification, computedAt>>
          ELSE /\ data' = parsedData(response.rows)
               /\ error' = NoError
               /\ abcClassification' = abcEffect(parsedData(response.rows), abcClassification)
               /\ computedAt' = now
    /\ now' = now
    /\ UNCHANGED <<sheetUrl, isAuthorized, activeSKUs, serviceLevel,
                   leadTimeChange, demandChange, vendorFilter>>
    /\ UNCHANGED loginVars

\* The request fails: fewer than 2 rows, another header, or the call throws.
FetchFails(message) ==
    /\ UNCHANGED loginVars
    /\ inflight > 0
    /\ inflight' = inflight - 1
    /\ error' = message
    /\ UNCHANGED <<data, sheetUrl, isAuthorized, activeSKUs, serviceLevel,
                   leadTimeChange, demandChange, vendorFilter, abcClassification>>
    /\ UNCHANGED <<now, computedAt>>

FetchErrors == {"No data found in Sheet1. Ensure data starts on row 2.",
                "Header mismatch.", "Fetch Error."}

\* handleLogout; the effect on [data] returns at data.length === 0, and the
\* effect on [gapiReady, gisReady, clientId, apiKey] sets authClientReady false.
handleLogout ==
    /\ isAuthorized
    /\ storage' = NoCreds
    /\ apiKey' = Empty
    /\ clientId' = Empty
    /\ authClientReady' = authClientEffect(gapiReady, gisReady, Empty, Empty)
    /\ loggedOut' = TRUE
    /\ UNCHANGED <<rememberMe, gapiReady, gisReady, expandedCategories,
                   pendingToken, pendingInit>>
    /\ isAuthorized' = FALSE
    /\ data' = <<>>
    /\ sheetUrl' = Empty
    /\ abcClassification' = abcEffect(<<>>, abcClassification)
    /\ UNCHANGED <<error, activeSKUs, serviceLevel, leadTimeChange, demandChange,
                   vendorFilter, inflight>>
    /\ now' = now
    /\ computedAt' = now

\* Variant of toggled that appends the SKU whether it is selected or not.
toggledAppending(prev, sku) == Append(prev, sku)

\* prev.includes(sku) ? prev.filter(s => s !== sku) : [...prev, sku]
toggled(prev, sku) ==
    IF sku \in Range(prev) THEN SelectSeq(prev, LAMBDA s : s # sku)
    ELSE Append(prev, sku)

\* Variant of toggleSKU after which the classification is dropped.
toggleSKUDeclassifying(sku) ==
    /\ UNCHANGED loginVars
    /\ isAuthorized
    /\ sku \in listedSKUs
    /\ activeSKUs' = toggled(activeSKUs, sku)
    /\ abcClassification' = <<>>
    /\ now' = now
    /\ computedAt' = now
    /\ UNCHANGED <<data, error, sheetUrl, isAuthorized, serviceLevel,
                   leadTimeChange, demandChange, vendorFilter, inflight>>

\* The checkbox of a listed SKU on the dashboard.
toggleSKU(sku) ==
    /\ UNCHANGED loginVars
    /\ isAuthorized
    /\ sku \in listedSKUs
    /\ activeSKUs' = toggled(activeSKUs, sku)
    /\ UNCHANGED <<data, error, sheetUrl, isAuthorized, serviceLevel,
                   leadTimeChange, demandChange, vendorFilter,
                   abcClassification, inflight>>
    /\ now' = now
    /\ computedAt' = now

\* The keys of skuList: the parentItem of the records that have one and a sku.
categories == {data[i].parentItem : i \in {j \in 1..Len(data) :
                    data[j].parentItem # Empty /\ data[j].sku # Empty}}

\* prev => ({...prev, [category]: !prev[category]})
toggledCategory(prev, category) ==
    [c \in DOMAIN prev \cup {category} |->
        IF c = category THEN ~(c \in DOMAIN prev /\ prev[c]) ELSE prev[c]]

\* The click on a category of the product list.
toggleCategory(category) ==
    /\ isAuthorized
    /\ category \in categories
    /\ expandedCategories' = toggledCategory(expandedCategories, category)
    /\ UNCHANGED <<data, error, sheetUrl, isAuthorized, activeSKUs, serviceLevel,
                   leadTimeChange, demandChange, vendorFilter,
                   abcClassification, inflight, now, computedAt>>
    /\ UNCHANGED <<apiKey, clientId, rememberMe, authClientReady, gapiReady,
                   gisReady, storage, pendingToken, pendingInit, loggedOut>>

\* The vendor select of the dashboard, one option per entry of vendorList.
SetVendorFilter(v) ==
    /\ UNCHANGED loginVars
    /\ isAuthorized
    /\ v \in vendorList
    /\ v # vendorFilter
    /\ vendorFilter' = v
    /\ UNCHANGED <<data, error, sheetUrl, isAuthorized, activeSKUs, serviceLevel,
                   leadTimeChange, demandChange, abcClassification, inflight>>
    /\ UNCHANGED <<now, computedAt>>

\* The three ScenarioControl sliders of the dashboard.
SetServiceLevel(v) ==
    /\ UNCHANGED loginVars
    /\ isAuthorized
    /\ v # serviceLevel
    /\ serviceLevel' = v
    /\ UNCHANGED <<data, error, sheetUrl, isAuthorized, activeSKUs,
                   leadTimeChange, demandChange, vendorFilter,
                   abcClassification, inflight>>
    /\ now' = now
    /\ computedAt' = now

SetLeadTimeChange(v) ==
    /\ UNCHANGED loginVars
    /\ isAuthorized
    /\ v # leadTimeChange
    /\ leadTimeChange' = v
    /\ UNCHANGED <<data, error, sheetUrl, isAuthorized, activeSKUs, serviceLevel,
                   demandChange, vendorFilter, abcClassification, inflight>>
    /\ now' = now
    /\ computedAt' = now

SetDemandChange(v) ==
    /\ UNCHANGED loginVars
    /\ isAuthorized
    /\ v # demandChange
    /\ demandChange' = v
    /\ UNCHANGED <<data, error, sheetUrl, isAuthorized, activeSKUs, serviceLevel,
                   leadTimeChange, vendorFilter, abcClassification, inflight>>
    /\ now' = now
    /\ computedAt' = now

\* A day passes; nothing is recomputed.
Tick ==
    /\ UNCHANGED loginVars
    /\ now < MaxDay
    /\ now' = now + 1
    /\ UNCHANGED <<data, error, sheetUrl, isAuthorized, activeSKUs, serviceLevel,
                   leadTimeChange, demandChange, vendorFilter,
                   abcClassification, inflight, computedAt>>

\* Signing in, loading, selecting, filtering, signing out.
SessionNext ==
    \/ GapiLoaded
    \/ GisLoaded
    \/ SetApiKey("key")
    \/ handleClientIdChange("id")
    \/ \E url \in {"valid", "invalid"} : SetSheetUrl(url)
    \/ Authorize
    \/ \E sheet \in Sheets : FetchData(sheet)
    \/ \E message \in FetchErrors : FetchFails(message)
    \/ handleLogout
    \/ \E sku \in SKUs : toggleSKU(sku)
    \/ \E v \in {"All", "V1", "V2"} : SetVendorFilter(v)

\* Moving the sliders.
ScenarioNext ==
    \/ \E v \in ServiceLevels : SetServiceLevel(v)
    \/ \E v \in ChangeValues : SetLeadTimeChange(v)
    \/ \E v \in ChangeValues : SetDemandChange(v)

\* A session with the sliders left alone.
SessionSpec == Init /\ [][SessionNext]_vars

\* The engine as a function of its inputs: the dashboard with a sheet of the
\* engine's input space loaded and the sliders at any setting they offer; the
\* SKU is then selected and deselected.
EngineInit ==
    /\ data \in EngineSheets
    /\ abcClassification = abcEffect(data, <<>>)
    /\ error = NoError
    /\ sheetUrl = "valid"
    /\ isAuthorized = TRUE
    /\ activeSKUs = <<>>
    /\ serviceLevel \in ServiceSettings
    /\ leadTimeChange \in ChangeValues
    /\ demandChange \in ChangeValues
    /\ vendorFilter = "All"
    /\ inflight = 0
    /\ now = 0
    /\ computedAt = 0
    /\ LoggedIn

EngineNext == \E sku \in SKUs : toggleSKU(sku)

EngineSpec == EngineInit /\ [][EngineNext]_vars

\* The dashboard with one of the sheets loaded and the sliders set: SKUs are
\* selected and deselected and the vendor filter is set.
DashboardInit ==
    /\ data \in Sheets
    /\ abcClassification = abcEffect(data, <<>>)
    /\ error = NoError
    /\ sheetUrl = "valid"
    /\ isAuthorized = TRUE
    /\ activeSKUs = <<>>
    /\ serviceLevel \in ServiceSettings
    /\ leadTimeChange \in ChangeValues
    /\ demandChange \in DemandSettings
    /\ vendorFilter = "All"
    /\ inflight = 0
    /\ now = 0
    /\ computedAt = 0
    /\ LoggedIn

DashboardNext ==
    \/ \E sku \in SKUs : toggleSKU(sku)
    \/ \E v \in {"All", "V1", "V2"} : SetVendorFilter(v)

DashboardSpec == DashboardInit /\ [][DashboardNext]_vars

\* The dashboard over the days: a sheet is loaded, SKUs are selected and
\* deselected while the days pass.
ClockInit ==
    /\ data \in Sheets
    /\ abcClassification = abcEffect(data, <<>>)
    /\ error = NoError
    /\ sheetUrl = "valid"
    /\ isAuthorized = TRUE
    /\ activeSKUs = <<>>
    /\ serviceLevel = DefaultServiceLevel
    /\ leadTimeChange = 0
    /\ demandChange = 0
    /\ vendorFilter = "All"
    /\ inflight = 0
    /\ now = 0
    /\ computedAt = 0
    /\ LoggedIn

ClockNext ==
    \/ \E sku \in SKUs : toggleSKU(sku)
    \/ Tick

ClockSpec == ClockInit /\ [][ClockNext]_vars

\* The scenario controls: a sheet is loaded and A1 selected, and the three
\* sliders are moved.
ScenarioSheets == {SheetTenDays, SheetPareto}

ScenarioInit ==
    /\ data \in ScenarioSheets
    /\ abcClassification = abcEffect(data, <<>>)
    /\ error = NoError
    /\ sheetUrl = "valid"
    /\ isAuthorized = TRUE
    /\ activeSKUs = <<"A1">>
    /\ serviceLevel = DefaultServiceLevel
    /\ leadTimeChange = 0
    /\ demandChange = 0
    /\ vendorFilter = "All"
    /\ inflight = 0
    /\ now = 0
    /\ computedAt = 0
    /\ LoggedIn

ScenarioSpec == ScenarioInit /\ [][ScenarioNext]_vars

\* The controls of the dashboard with a sheet loaded: the SKU checkboxes, the
\* vendor select and the three sliders, moved to a few of their settings.
ControlsInit ==
    /\ data \in Sheets
    /\ abcClassification = abcEffect(data, <<>>)
    /\ error = NoError
    /\ sheetUrl = "valid"
    /\ isAuthorized = TRUE
    /\ activeSKUs = <<>>
    /\ serviceLevel = DefaultServiceLevel
    /\ leadTimeChange = 0
    /\ demandChange = 0
    /\ vendorFilter = "All"
    /\ inflight = 0
    /\ now = 0
    /\ computedAt = 0
    /\ LoggedIn

ControlsNext ==
    \/ \E sku \in SKUs : toggleSKU(sku)
    \/ \E v \in {"All", "V1", "V2"} : SetVendorFilter(v)
    \/ \E v \in ServiceSettings : SetServiceLevel(v)
    \/ \E v \in DemandSettings : SetLeadTimeChange(v)
    \/ \E v \in DemandSettings : SetDemandChange(v)

ControlsSpec == ControlsInit /\ [][ControlsNext]_vars

\* The characters of a numeric cell: a digit, the sign, the point, and a
\* currency symbol for all that the parsers strip.
Chars == {"1", "-", ".", "$"}

CellStrings == UNION {[1..n -> Chars] : n \in 0..MaxCell}

\* The numeric cells: a cell past the end of its row, the numbers -1.5, 0 and
\* 2.5, and every string of up to MaxCell characters.
NumericCells ==
    {Undefined}
    \cup {NumberCell(h) : h \in {0 - (3 * PriceScale) \div 2, 0, (5 * PriceScale) \div 2}}
    \cup {StringCell(text) : text \in CellStrings}

\* The columns robustParseInt and robustParseFloat read.
NumericColumns == {4, 5, 6, 7, 9, 10}

\* The unitsSold of a short row: none, and two strings with a sign.
ShortCells == {Undefined, StringCell(<<"-", "1">>), StringCell(<<"1", "-">>)}

\* The rows of a sheet that holds the cell in one numeric column and a 1 in
\* the others: an empty row, a row of ten cells, and a row that ends after
\* its unitsSold.
IngestRows(cell, column, short) ==
    LET one == StringCell(<<"1">>)
        full == <<DateCell(1), TextCell("P1"), TextCell("A1"), one, one, one,
                  one, TextCell("V1"), one, one>>
    IN << <<StringCell(<<>>), Undefined, NumberCell(0)>>,
          [full EXCEPT ![column] = cell],
          <<DateCell(2), TextCell("P1"), TextCell("A1"), short>> >>

\* The ingestion as a function of the cells: the dashboard has just opened
\* on a valid URL and its request is answered.
IngestInit ==
    /\ data = <<>>
    /\ abcClassification = <<>>
    /\ error = NoError
    /\ sheetUrl = "valid"
    /\ isAuthorized = TRUE
    /\ activeSKUs = <<>>
    /\ serviceLevel = DefaultServiceLevel
    /\ leadTimeChange = 0
    /\ demandChange = 0
    /\ vendorFilter = "All"
    /\ inflight = 1
    /\ now = 0
    /\ computedAt = 0
    /\ LoggedIn

IngestNext ==
    \E cell \in NumericCells, column \in NumericColumns, short \in ShortCells :
        FetchResponds(Values(expectedHeader, IngestRows(cell, column, short)))

IngestSpec == IngestInit /\ [][IngestNext]_vars

\* The first render with credentials saved by an earlier visit: the effect
\* that loads them fills the three inputs and checks Remember Credentials.
RestoredInit ==
    /\ data = <<>>
    /\ error = NoError
    /\ sheetUrl = "valid"
    /\ isAuthorized = FALSE
    /\ activeSKUs = <<>>
    /\ serviceLevel = DefaultServiceLevel
    /\ leadTimeChange = 0
    /\ demandChange = 0
    /\ vendorFilter = "All"
    /\ abcClassification = <<>>
    /\ inflight = 0
    /\ now = 0
    /\ computedAt = 0
    /\ apiKey = "key"
    /\ clientId = "id"
    /\ rememberMe = TRUE
    /\ authClientReady = FALSE
    /\ gapiReady = FALSE
    /\ gisReady = FALSE
    /\ expandedCategories = <<>>
    /\ storage = Creds("key", "id", "valid")
    /\ pendingToken = 0
    /\ pendingInit = 0
    /\ loggedOut = FALSE

\* A header with another name for a column, and the expected header with
\* spaces around a name.
otherHeader == [expectedHeader EXCEPT ![3] = "SKU"]
spacedHeader == [expectedHeader EXCEPT ![1] = " date "]

\* The answers of the Sheets API: it throws, the sheet is empty, it has a
\* header and no rows, its header is another, and it is a sheet of records.
LoginResponses ==
    {Throws, NoValues, Values(expectedHeader, <<>>),
     Values(otherHeader, RawSheet(SheetUnsold)),
     Values(spacedHeader, RawSheet(SheetUnsold)),
     Values(expectedHeader, RawSheet(SheetGaps))}

\* Signing in and out: the scripts load, the login form is filled, Connect &
\* Authorize is clicked, the token and the client initialisation come back,
\* the sheet is fetched, and the user logs out.
LoginInit == Init \/ RestoredInit

LoginNext ==
    \/ GapiLoaded
    \/ GisLoaded
    \/ \E value \in {Empty, "key"} : SetApiKey(value)
    \/ \E value \in {"id pasted", " "} : handleClientIdChange(value)
    \/ \E url \in {"valid", "invalid"} : SetSheetUrl(url)
    \/ \E checked \in BOOLEAN : SetRememberMe(checked)
    \/ handleAuthClick
    \/ \E hasError \in BOOLEAN : TokenResponse(hasError)
    \/ ClientInitSucceeds
    \/ ClientInitFails
    \/ \E response \in LoginResponses : FetchResponds(response)
    \/ handleLogout

LoginSpec == LoginInit /\ [][LoginNext]_vars

\* Logging out of a dashboard in use: a sheet is loaded, SKUs are selected,
\* the sliders and the vendor filter are set, the credentials are remembered
\* or not; categories are opened and closed and the user logs out.
LogoutInit ==
    /\ data \in Sheets
    /\ abcClassification = abcEffect(data, <<>>)
    /\ error = NoError
    /\ sheetUrl = "valid"
    /\ isAuthorized = TRUE
    /\ activeSKUs \in {<<>>, <<"A1">>, <<"B2", "A1">>}
    /\ serviceLevel \in {DefaultServiceLevel, ServiceLevelMin}
    /\ leadTimeChange \in {0, ChangeMax}
    /\ demandChange \in {0, ChangeMin}
    /\ vendorFilter \in {"All", "V1"}
    /\ inflight = 0
    /\ now = 0
    /\ computedAt = 0
    /\ apiKey = "key"
    /\ clientId = "id"
    /\ rememberMe \in BOOLEAN
    /\ authClientReady = TRUE
    /\ gapiReady = TRUE
    /\ gisReady = TRUE
    /\ expandedCategories = <<>>
    /\ storage = IF rememberMe THEN Creds("key", "id", "valid") ELSE NoCreds
    /\ pendingToken = 0
    /\ pendingInit = 0
    /\ loggedOut = FALSE

LogoutNext ==
    \/ \E category \in {"P1", "P2"} : toggleCategory(category)
    \/ handleLogout

LogoutSpec == LogoutInit /\ [][LogoutNext]_vars

\* The whole program.
Next == SessionNext \/ ScenarioNext \/ Tick \/ LoginNext
            \/ (\E category \in {"P1", "P2"} : toggleCategory(category))

Spec == Init /\ [][Next]_vars

\* ------------------------------------------------------------ properties

\* The ingestion contract of the record set: unitsSold, orderCount, unitPrice,
\* unitCost and leadTime are not negative.
ConformsToContract ==
    \A i \in 1..Len(data) :
        /\ data[i].unitsSold >= 0 /\ data[i].orderCount >= 0
        /\ data[i].unitPrice >= 0 /\ data[i].unitCost >= 0
        /\ data[i].leadTime >= 0

\* The dated records of a SKU, and those of its latest day.
datedRecords(sku) ==
    {i \in 1..Len(data) : data[i].sku = sku /\ data[i].date # NoDate}

latestRecords(sku) ==
    {i \in datedRecords(sku) :
        \A j \in datedRecords(sku) : data[j].date <= data[i].date}

\* C1: for every computed SKU of a conforming record set, under every slider
\* setting, purchaseRecommendation is max(0, maxStock - currentInventory) when
\* currentInventory <= reorderPoint and 0 otherwise, hence never negative.
C1_PurchaseRecommendation ==
    ConformsToContract =>
        \A sku \in computedSKUs :
            LET e == processedData[sku]
            IN \E i \in latestRecords(sku) :
                LET currentInventory == data[i].currentInventory
                IN /\ e.purchaseRecommendation >= 0
                   /\ e.purchaseRecommendation =
                        IF currentInventory <= e.reorderPoint
                            THEN Max(0, e.maxStock - currentInventory)
                            ELSE 0

\* C1 witness: away from the initial sliders, a SKU with stock on hand at or
\* below its reorder point gets a recommendation.
C1_Witness ==
    /\ serviceLevel # DefaultServiceLevel /\ leadTimeChange # 0
    /\ \E sku \in computedSKUs :
        /\ locals(sku).currentInventory > 0
        /\ locals(sku).currentInventory <= processedData[sku].reorderPoint
        /\ processedData[sku].purchaseRecommendation > 0

\* C2: for every computed SKU of a conforming record set, under every slider
\* setting: safetyStock >= 0, reorderPoint >= safetyStock, maxStock >= reorderPoint.
C2_StockLevelsOrdered ==
    ConformsToContract =>
        \A sku \in computedSKUs :
            LET e == processedData[sku]
            IN /\ e.safetyStock >= 0
               /\ e.reorderPoint >= e.safetyStock
               /\ e.maxStock >= e.reorderPoint

\* C2 witness: a SKU whose three levels are strictly apart, with the safety
\* stock above the expected demand over the lead time.
C2_Witness ==
    \E sku \in computedSKUs :
        LET e == processedData[sku]
        IN /\ 0 < e.safetyStock /\ e.safetyStock < e.reorderPoint
           /\ e.reorderPoint < e.maxStock
           /\ e.reorderPoint < 2 * e.safetyStock

\* The days 1..120 on which the projection rises by the recommendation over
\* the day's forecast-driven decline.
replenishedDays(p, f, pr) ==
    {i \in 1..Horizon :
        p[i + 1].inventory = p[i].inventory - f[i].ForecastedUnits + pr}

\* C3: the projection of a computed SKU has 121 entries; entry 0 is 'Today'
\* with the currentInventory of the SKU's most recent record; entry i is entry
\* i-1 minus day i's forecasted units, plus purchaseRecommendation exactly
\* when i = adjustedLeadTime and purchaseRecommendation > 0.
C3_ProjectionRecurrence ==
    \A sku \in computedSKUs :
        LET p == processedProjection(sku)
            f == processedForecast(sku)
            pr == processedData[sku].purchaseRecommendation
            alt == locals(sku).adjustedLeadTime
        IN /\ Len(p) = Horizon + 1
           /\ p[1].date = Today
           /\ \E r \in latestRecords(sku) :
                p[1].inventory = data[r].currentInventory
           /\ \A i \in 1..Horizon :
                p[i + 1].inventory =
                    p[i].inventory - f[i].ForecastedUnits
                        + (IF i = alt /\ pr > 0 THEN pr ELSE 0)

\* C3 witness: a projection that declines, and steps up on the day of the
\* adjusted lead time.
C3_Witness ==
    \E sku \in computedSKUs :
        LET p == processedProjection(sku)
            alt == locals(sku).adjustedLeadTime
        IN /\ alt \in 2..Horizon
           /\ leadTimeChange # 0 /\ demandChange # 0
           /\ p[alt].inventory < p[alt - 1].inventory
           /\ p[alt + 1].inventory > p[alt].inventory

\* C4 as claimed: whenever purchaseRecommendation > 0 the replenishment is
\* added exactly once, on day adjustedLeadTime, for every base lead time and
\* lead-time change, so that the day-120 inventory is
\* currentInventory - 120 * forecastedUnits + purchaseRecommendation.
C4_AsClaimed ==
    \A sku \in computedSKUs :
        LET m == locals(sku)
            p == processedProjection(sku)
            days == replenishedDays(p, processedForecast(sku),
                                    m.purchaseRecommendation)
        IN m.purchaseRecommendation > 0 =>
            /\ days = {m.adjustedLeadTime}
            /\ p[Horizon + 1].inventory =
                m.currentInventory - Horizon * m.forecastedUnits
                    + m.purchaseRecommendation

\* C4 amended: whenever purchaseRecommendation > 0, if adjustedLeadTime is one
\* of the days 1..120 the replenishment is added exactly once, on that day,
\* and the day-120 inventory is currentInventory - 120 * forecastedUnits +
\* purchaseRecommendation; if adjustedLeadTime is 0 or above 120 it is added
\* on no day and the day-120 inventory is currentInventory - 120 * forecastedUnits.
C4_ReplenishedOnceWithinHorizon ==
    \A sku \in computedSKUs :
        LET m == locals(sku)
            p == processedProjection(sku)
            days == replenishedDays(p, processedForecast(sku),
                                    m.purchaseRecommendation)
            last == p[Horizon + 1].inventory
        IN m.purchaseRecommendation > 0 =>
            IF m.adjustedLeadTime \in 1..Horizon
                THEN /\ days = {m.adjustedLeadTime}
                     /\ last = m.currentInventory - Horizon * m.forecastedUnits
                                + m.purchaseRecommendation
                ELSE /\ days = {}
                     /\ last = m.currentInventory - Horizon * m.forecastedUnits

\* C4 witness: a recommendation landing within the horizon after the
\* lead-time slider moved.
C4_Witness ==
    \E sku \in computedSKUs :
        /\ locals(sku).purchaseRecommendation > 0
        /\ locals(sku).adjustedLeadTime \in 1..Horizon
        /\ leadTimeChange # 0
        /\ replenishedDays(processedProjection(sku), processedForecast(sku),
                            locals(sku).purchaseRecommendation)
                = {locals(sku).adjustedLeadTime}

\* The sum of the function f over the members of a finite set.
RECURSIVE SumOver(_, _)
SumOver(S, f) ==
    IF S = {} THEN 0
    ELSE LET x == CHOOSE y \in S : TRUE
         IN f[x] + SumOver(S \ {x}, f)

\* The SKUs that appear in the record set, and the units each sold.
appearingSKUs == {data[i].sku : i \in 1..Len(data)} \ {Empty}

unitsSoldOf(sku) ==
    SumOver({i \in 1..Len(data) : data[i].sku = sku},
            [i \in 1..Len(data) |-> data[i].unitsSold])

totalUnitsSold ==
    SumOver(appearingSKUs, [sku \in appearingSKUs |-> unitsSoldOf(sku)])

\* The orders in which a set can be walked.
WalksOf(S) ==
    {w \in [1..Cardinality(S) -> S] : \A x \in S : \E i \in DOMAIN w : w[i] = x}

C6_AsClaimed ==
    (Len(data) = 0 \/ totalUnitsSold = 0) => DOMAIN abcClassification = {}

\* The entries of the metrics map.
C7_Entries ==
    \A sku \in SKUs \cup {Empty} :
        sku \in DOMAIN processedData <=>
            /\ sku \in Range(activeSKUs)
            /\ Cardinality(datedRecords(sku)) >= 2

\* C7: the metrics map has an entry for a SKU exactly when the SKU is active
\* and the record set holds at least 2 records of it with a date; and a step
\* that changes the record set or the selection and leaves an active SKU
\* with fewer such records sets no error (error stays, or the load clears it).
C7_MetricsPresence ==
    /\ []C7_Entries
    /\ [][ ( /\ (data' # data \/ activeSKUs' # activeSKUs)
             /\ \E sku \in Range(activeSKUs') :
                    Cardinality({i \in 1..Len(data') :
                        data'[i].sku = sku /\ data'[i].date # NoDate}) < 2 )
           => error' \in {error, NoError} ]_vars

\* C7 witness: of two active SKUs, one with a single dated record among three
\* has no entry, the other has one, and no error is set.
C7_Witness ==
    /\ data = SheetGaps
    /\ Range(activeSKUs) = {"A1", "B2"}
    /\ Cardinality({i \in 1..Len(data) : data[i].sku = "A1"}) = 3
    /\ DOMAIN processedData = {"B2"}
    /\ error = NoError

\* The computed SKUs to reorder from the vendor selected.
recommendedSKUs ==
    {sku \in computedSKUs :
        /\ processedData[sku].purchaseRecommendation > 0
        /\ (vendorFilter = "All" \/ processedData[sku].vendor = vendorFilter)}

\* C8: the filtered list holds, once each, exactly the computed SKUs with
\* purchaseRecommendation > 0 whose vendor is vendorFilter, or all of those
\* with purchaseRecommendation > 0 under 'All'; with two such SKUs, of vendors
\* V1 and V2, vendorFilter = 'V1' leaves only the V1 SKU.
C8_FilteredRecommendations ==
    LET list == filteredPurchaseRecommendations
    IN /\ Range(list) = recommendedSKUs
       /\ Len(list) = Cardinality(recommendedSKUs)
       /\ \A a, b \in computedSKUs :
            ( /\ processedData[a].purchaseRecommendation > 0
              /\ processedData[b].purchaseRecommendation > 0
              /\ processedData[a].vendor = "V1"
              /\ processedData[b].vendor = "V2"
              /\ vendorFilter = "V1" )
            => /\ a \in Range(list)
               /\ b \notin Range(list)

\* C8 witness: two SKUs to reorder, of vendors V1 and V2, filtered by V1 with
\* the sliders moved.
C8_Witness ==
    /\ vendorFilter = "V1"
    /\ serviceLevel # DefaultServiceLevel /\ leadTimeChange # 0
    /\ computedSKUs = {"A1", "B2"}
    /\ \A sku \in computedSKUs : processedData[sku].purchaseRecommendation > 0
    /\ processedData["A1"].vendor = "V1" /\ processedData["B2"].vendor = "V2"
    /\ filteredPurchaseRecommendations = <<"A1">>

\* C9: reorderItems is the number of entries of the filtered list, and
\* purchaseValue is the sum of purchaseRecommendation * unitCost over those
\* entries; both are 0 when no metrics are computed.
C9_PurchaseKpis ==
    LET list == filteredPurchaseRecommendations
        value == [sku \in Range(list) |->
                    processedData[sku].purchaseRecommendation
                        * processedData[sku].unitCost]
    IN /\ reorderItems = Len(list)
       /\ purchaseValue = SumOver(Range(list), value)
       /\ computedSKUs = {} => reorderItems = 0 /\ purchaseValue = 0

\* C9 witness: two SKUs to reorder and a filter that keeps one of them.
C9_Witness ==
    /\ vendorFilter = "V2"
    /\ demandChange # 0
    /\ \A sku \in {"A1", "B2"} :
        /\ sku \in computedSKUs
        /\ processedData[sku].purchaseRecommendation > 0
    /\ reorderItems = 1
    /\ purchaseValue = processedData["B2"].purchaseRecommendation
                        * processedData["B2"].unitCost
    /\ purchaseValue > 0

\* C10: totalRevenue is the sum, over the active SKUs (those with metrics; the
\* others have no forecast), of day-1 forecasted units * unitPrice * 120.
C10_TotalRevenue ==
    LET forecasting ==
            {sku \in Range(activeSKUs) : sku \in DOMAIN processedData}
        revenue == [sku \in forecasting |->
                        processedForecast(sku)[1].ForecastedUnits
                            * processedData[sku].unitPrice * 120]
    IN totalRevenue = SumOver(forecasting, revenue)

\* C10 witness: three active SKUs, two of them with metrics and a forecast
\* scaled by the demand slider.
C10_Witness ==
    /\ Len(activeSKUs) = 3
    /\ Cardinality(computedSKUs) = 2
    /\ demandChange > 0
    /\ \A sku \in computedSKUs : processedForecast(sku)[1].ForecastedUnits > 0
    /\ totalRevenue > 0

\* The date keys of a series.
dateKeys(series) == {series[k].date : k \in 1..Len(series)}

\* C11: the aggregated projection has one entry per date key of the computed
\* SKUs' projections; the inventory under a key is the sum of the SKUs'
\* projected inventories under that key; 'Today' is first and the other keys
\* ascend; and the result is the same for every order of the SKUs.
C11_AggregatedProjection ==
    LET agg == aggregatedInventoryProjection
        n == Len(agg)
        m == Len(processedOrder)
        series == ArrayOf([k \in 1..m |-> processedProjection(processedOrder[k])])
    IN /\ \A i, j \in 1..n : i # j => agg[i].date # agg[j].date
       /\ dateKeys(agg) = UNION {dateKeys(series[k]) : k \in 1..m}
       /\ \A i \in 1..n :
            agg[i].inventory =
                SumOver(1..m, [k \in 1..m |-> inventoryAt(series[k], agg[i].date)])
       /\ n > 0 => agg[1].date = Today
       /\ \A i \in 2..(n - 1) : agg[i].date < agg[i + 1].date
       /\ \A w \in WalksOf(computedSKUs) : aggregatedProjectionOf(w) = agg

\* C11 witness: two SKUs computed on a later day, selected in the order that
\* is not the order of the sheet, aggregated into 121 entries.
C11_Witness ==
    /\ computedAt > 0
    /\ processedOrder = <<"B2", "A1">>
    /\ Len(aggregatedInventoryProjection) = Horizon + 1
    /\ aggregatedInventoryProjection[1].inventory =
            processedProjection("A1")[1].inventory
                + processedProjection("B2")[1].inventory
    /\ aggregatedInventoryProjection[1].inventory > 0

\* The units a SKU sold on its dated records, and the number of those records.
datedUnitsSold(sku) ==
    SumOver(datedRecords(sku), [i \in datedRecords(sku) |-> data[i].unitsSold])

datedCount(sku) == Cardinality(datedRecords(sku))

\* C12: the forecast of a computed SKU has exactly 120 entries, and on every
\* day the forecasted units are max(0, round(avgDailySales * (1 + demandChange / 100))).
C12_ForecastSeries ==
    \A sku \in computedSKUs :
        LET f == processedForecast(sku)
            units == Max(0, Round(datedUnitsSold(sku) * (100 + demandChange),
                                  100 * datedCount(sku)))
        IN /\ DOMAIN f = 1..120
           /\ \A i \in DOMAIN f : f[i].ForecastedUnits = units

\* C12 witness: a forecast the demand slider has moved off the rounded average.
C12_Witness ==
    \E sku \in computedSKUs :
        /\ demandChange # 0
        /\ processedForecast(sku)[Horizon].ForecastedUnits > 0
        /\ processedForecast(sku)[Horizon].ForecastedUnits
                # Round(datedUnitsSold(sku), datedCount(sku))

\* C13: for A1 with the ten daily records of unitsSold 10, 12, 8, 11, 9, 10,
\* 13, 9, 10, 8, leadTime 7 and currentInventory 50, at serviceLevel 98 and
\* both changes 0, the engine yields adjustedLeadTime 7, safetyStock 9,
\* reorderPoint 79, maxStock 379 and purchaseRecommendation 329.
C13_TenDayExample ==
    ( /\ data = SheetTenDays
      /\ "A1" \in computedSKUs
      /\ serviceLevel = 98 /\ leadTimeChange = 0 /\ demandChange = 0 )
    => /\ locals("A1").adjustedLeadTime = 7
       /\ processedData["A1"].safetyStock = 9
       /\ processedData["A1"].reorderPoint = 79
       /\ processedData["A1"].maxStock = 379
       /\ processedData["A1"].purchaseRecommendation = 329

\* C13 witness: the ten-day sheet with A1 selected under the initial sliders.
C13_Witness ==
    /\ data = SheetTenDays
    /\ [i \in 1..Len(data) |-> data[i].unitsSold] = TenDays
    /\ activeSKUs = <<"A1">>
    /\ serviceLevel = 98 /\ leadTimeChange = 0 /\ demandChange = 0
    /\ processedData["A1"].purchaseRecommendation = 329

\* C14: for a computed SKU whose dated records all have the same unitsSold,
\* safetyStock is 0 and reorderPoint is round(avgDailySales * adjustedLeadTime),
\* at every service level and lead-time change.
C14_ZeroVariance ==
    \A sku \in computedSKUs :
        (\A i, j \in datedRecords(sku) : data[i].unitsSold = data[j].unitsSold)
        => /\ processedData[sku].safetyStock = 0
           /\ processedData[sku].reorderPoint =
                Round(datedUnitsSold(sku) * locals(sku).adjustedLeadTime,
                      datedCount(sku))

\* C14 witness: steady sales over a lead time the slider has changed, at a
\* service level other than the initial one.
C14_Witness ==
    \E sku \in computedSKUs :
        /\ \A i, j \in datedRecords(sku) : data[i].unitsSold = data[j].unitsSold
        /\ datedUnitsSold(sku) > 0
        /\ serviceLevel # DefaultServiceLevel /\ leadTimeChange # 0
        /\ processedData[sku].safetyStock = 0
        /\ processedData[sku].reorderPoint > 0

\* The multiplier of a service level, in 200ths: 1.28, 1.645, 2.05, 2.33 for
\* 90, 95, 98, 99 and 2.05 for any other.
multiplier200(sl) ==
    IF sl = 90 THEN 256
    ELSE IF sl = 95 THEN 329
    ELSE IF sl = 99 THEN 466
    ELSE 410

\* The sum of the squares of the units a SKU sold on its dated records.
datedSquares(sku) ==
    SumOver(datedRecords(sku),
            [i \in datedRecords(sku) |-> data[i].unitsSold * data[i].unitsSold])

\* C15: at every service level the sliders reach, the engine computes an entry,
\* and its safetyStock is round(Z * stdDev * sqrt(adjustedLeadTime)) with Z
\* 1.28, 1.645, 2.05, 2.33 at 90, 95, 98, 99 and 2.05 at every other level.
C15_ServiceLevelMultiplier ==
    \A sku \in Range(activeSKUs) :
        datedCount(sku) >= 2 =>
            LET n == datedCount(sku)
                z == multiplier200(serviceLevel)
                spread == n * datedSquares(sku)
                            - datedUnitsSold(sku) * datedUnitsSold(sku)
            IN /\ sku \in DOMAIN processedData
               /\ processedData[sku].safetyStock =
                    RoundHalfSqrt(z * z * spread * locals(sku).adjustedLeadTime,
                                  10000 * n * (n - 1))

\* C15 witness: a service level without an entry in the table, and a safety
\* stock above 0.
C15_Witness ==
    /\ serviceLevel = 93
    /\ leadTimeChange # 0
    /\ \E sku \in computedSKUs : processedData[sku].safetyStock > 0

\* C16 as claimed: in every state the scenario controls reach, serviceLevel is
\* one of 90, 95, 98, 99 and both changes are within -50..50.
C16_AsClaimed ==
    /\ serviceLevel \in {90, 95, 98, 99}
    /\ leadTimeChange \in -50..50
    /\ demandChange \in -50..50

\* C17 as claimed: a recomputation with the same record set, selection and
\* sliders yields the same outputs whenever it runs; so the series the memo
\* holds carry the date keys a run on the present day would give them.
C17_AsClaimed ==
    \A sku \in computedSKUs :
        /\ \A i \in 1..Horizon :
            processedForecast(sku)[i].date = dateKey(now, i)
        /\ \A i \in 1..Horizon :
            processedProjection(sku)[i + 1].date = dateKey(now, i)

\* The SKU identifiers in ascending order, and the place of one among them.
SKUsAscending == <<"A1", "B2", "C3">>

placeOfSKU(sku) == CHOOSE k \in 1..Len(SKUsAscending) : SKUsAscending[k] = sku

\* C18 as claimed: the classes are those of the walk over the SKUs in
\* descending order of units sold with equal totals in ascending order of the
\* SKU identifier, whatever the order of the rows.
C18_AsClaimed ==
    totalUnitsSold > 0 =>
        \E w \in WalksOf(appearingSKUs) :
            /\ \A i, j \in DOMAIN w :
                i < j =>
                    \/ unitsSoldOf(w[i]) > unitsSoldOf(w[j])
                    \/ /\ unitsSoldOf(w[i]) = unitsSoldOf(w[j])
                       /\ placeOfSKU(w[i]) < placeOfSKU(w[j])
            /\ \A i \in DOMAIN w :
                LET cumulative ==
                        SumOver(1..i, [j \in 1..i |-> unitsSoldOf(w[j])])
                IN abcClassification[w[i]] =
                    IF 5 * cumulative <= 4 * totalUnitsSold THEN "A"
                    ELSE IF 20 * cumulative <= 19 * totalUnitsSold THEN "B"
                    ELSE "C"

\* C19: a step that changes the selection, a slider or the vendor filter
\* leaves the ABC classification unchanged.
C19_ClassificationFrame ==
    [][ ( \/ activeSKUs' # activeSKUs
          \/ serviceLevel' # serviceLevel
          \/ leadTimeChange' # leadTimeChange
          \/ demandChange' # demandChange
          \/ vendorFilter' # vendorFilter )
        => abcClassification' = abcClassification ]_vars

\* C19 witness: a classified sheet after the selection, the three sliders and
\* the vendor filter have all been changed.
C19_Witness ==
    /\ Len(activeSKUs) = 2
    /\ serviceLevel # DefaultServiceLevel
    /\ leadTimeChange # 0 /\ demandChange # 0
    /\ vendorFilter = "V2"
    /\ DOMAIN abcClassification = {"A1", "B2", "C3"}
    /\ abcClassification = classification(data)

\* C20: for every computed SKU of a conforming record set, inventoryTurns is a
\* finite number; it is 0 when ((maxStock + safetyStock) / 2) * unitCost is 0,
\* as it is at zero unit cost and at zero demand with zero safety stock, and
\* (avgDailySales * 365 * unitCost) divided by that value otherwise.
C20_InventoryTurns ==
    ConformsToContract =>
        \A sku \in computedSKUs :
            LET e == processedData[sku]
                turns == e.inventoryTurns
                value2 == (e.maxStock + e.safetyStock) * e.unitCost
                cogs == datedUnitsSold(sku) * 365 * e.unitCost
            IN /\ turns.den # 0
               /\ value2 = 0 => turns.num = 0
               /\ (e.unitCost = 0 \/ (datedUnitsSold(sku) = 0 /\ e.safetyStock = 0))
                    => value2 = 0
               /\ value2 # 0 =>
                    turns.num * (datedCount(sku) * value2) = turns.den * (2 * cogs)

\* C20 witness: under moved sliders, one computed SKU has an inventory value of
\* 0 and another turns its inventory over.
C20_Witness ==
    /\ ConformsToContract
    /\ serviceLevel # DefaultServiceLevel /\ leadTimeChange # 0
    /\ \E sku \in computedSKUs :
        /\ processedData[sku].unitCost = 0
        /\ processedData[sku].maxStock > 0
        /\ processedData[sku].inventoryTurns.num = 0
    /\ \E sku \in computedSKUs :
        /\ processedData[sku].inventoryTurns.num > 0
        /\ processedData[sku].safetyStock > 0

\* C21: every record of the record set has unitsSold, orderCount, unitPrice,
\* unitCost and leadTime of at least 0, whatever the cells of the sheet hold.
C21_AsClaimed ==
    \A i \in 1..Len(data) :
        /\ data[i].unitsSold >= 0
        /\ data[i].orderCount >= 0
        /\ data[i].unitPrice >= 0
        /\ data[i].unitCost >= 0
        /\ data[i].leadTime >= 0

\* A response on which fetchData stops without storing rows, and one it
\* stops on at the header.
failing(response) ==
    \/ response.throws
    \/ ~response.hasValues
    \/ Len(<<response.header>> \o response.rows) < 2
    \/ \E k \in 1..10 : k > Len(response.header) \/ trim(response.header[k]) # expectedHeader[k]
    \/ Len(response.header) # 10

headerMismatch(response) ==
    /\ ~response.throws /\ response.hasValues /\ Len(response.rows) >= 1
    /\ header(response) # expectedHeader

\* C22: a fetch that fails (the URL does not match, fewer than 2 rows come
\* back, the header is not the expected one, or the call throws) sets an error
\* message and leaves the record set as it was, and the message of a header
\* mismatch is that of no other failure.
C22_FailedFetch ==
    [][ /\ \A response \in LoginResponses :
            (FetchResponds(response) /\ failing(response)) =>
                /\ error' # NoError
                /\ data' = data
                /\ headerMismatch(response) <=> error' = "Header mismatch."
        /\ (~isAuthorized /\ isAuthorized' /\ sheetUrl = "invalid") =>
                /\ error' # NoError /\ error' # "Header mismatch."
                /\ data' = data
                /\ inflight' = inflight ]_vars

\* C22 witness: a record set is loaded, and a later fetch has stopped at the
\* header and left it in place.
C22_Witness ==
    /\ error = "Header mismatch."
    /\ Len(data) > 0
    /\ isAuthorized
    /\ inflight = 0

\* C23: from handleLogout until the next click on Connect & Authorize,
\* isAuthorized is false and the record set is empty, also when a client
\* initialisation or a sheet fetch begun before the logout settles after it.
C23_AsClaimed == loggedOut => (~isAuthorized /\ data = <<>>)

\* C24: isAuthorized turns from false to true only as a client initialisation
\* settles without an error, one begun by a token response without an error;
\* a token response with an error sets an error message and isAuthorized to
\* false; a failed initialisation sets an error message and does not set
\* isAuthorized to true.
C24_AuthorizationSteps ==
    [][ /\ (~isAuthorized /\ isAuthorized') =>
                /\ ClientInitSucceeds
                /\ pendingInit > 0
                /\ pendingInit' = pendingInit - 1
                /\ pendingToken' = pendingToken
        /\ pendingInit' > pendingInit =>
                /\ TokenResponse(FALSE)
                /\ pendingToken' = pendingToken - 1
                /\ error' = error /\ isAuthorized' = isAuthorized
        /\ TokenResponse(TRUE) => (error' # NoError /\ ~isAuthorized')
        /\ ClientInitFails =>
                /\ error' # NoError
                /\ isAuthorized' = isAuthorized ]_vars

\* C24 witness: the user is let in by a second initialisation after the
\* first one failed, and the sheet is being fetched.
C24_Witness ==
    /\ isAuthorized
    /\ error = "API Initialization Error: Check your API Key."
    /\ inflight = 1
    /\ pendingInit = 0 /\ pendingToken = 0

\* C26: a click on Connect & Authorize leaves in local storage the apiKey,
\* clientId and sheetUrl of that moment if Remember Credentials is checked and
\* nothing if it is not, a logout leaves nothing, and no other step changes
\* what is stored: the credentials are there exactly when the last click or
\* logout was a click with the box checked (on the first render, that of the
\* visit that saved them).
C26_StoredCredentials ==
    [][ /\ handleAuthClick =>
                storage' = IF rememberMe THEN Creds(apiKey, clientId, sheetUrl)
                           ELSE NoCreds
        /\ handleLogout => ~storage'.saved
        /\ storage' # storage =>
                \/ pendingToken' = pendingToken + 1
                \/ isAuthorized /\ ~isAuthorized' /\ loggedOut' ]_vars

\* C26 witness: the credentials of a click are stored, and the box has been
\* unchecked and the URL changed since.
C26_Witness ==
    /\ storage.saved
    /\ storage.sheetUrl = "valid" /\ sheetUrl = "invalid"
    /\ ~rememberMe
    /\ pendingToken = 1

\* C25: the logout sets isAuthorized to false, empties the record set, clears
\* apiKey, clientId and sheetUrl and removes the stored credentials, and
\* leaves activeSKUs, expandedCategories, the three sliders, vendorFilter and
\* the ABC classification as they were.
C25_LogoutFrame ==
    [][ (isAuthorized /\ ~isAuthorized') =>
            /\ data' = <<>>
            /\ apiKey' = Empty /\ clientId' = Empty /\ sheetUrl' = Empty
            /\ ~storage'.saved
            /\ activeSKUs' = activeSKUs
            /\ DOMAIN expandedCategories' = DOMAIN expandedCategories
            /\ \A c \in DOMAIN expandedCategories :
                    expandedCategories'[c] = expandedCategories[c]
            /\ serviceLevel' = serviceLevel
            /\ leadTimeChange' = leadTimeChange
            /\ demandChange' = demandChange
            /\ vendorFilter' = vendorFilter
            /\ DOMAIN abcClassification' = DOMAIN abcClassification
            /\ \A sku \in DOMAIN abcClassification :
                    abcClassification'[sku] = abcClassification[sku] ]_vars

\* C25 witness: logged out of a dashboard with remembered credentials, two SKUs
\* selected, a category open and one closed again, and every control moved.
C25_Witness ==
    /\ loggedOut /\ ~isAuthorized
    /\ data = <<>> /\ apiKey = Empty /\ sheetUrl = Empty
    /\ rememberMe /\ ~storage.saved
    /\ Len(activeSKUs) = 2
    /\ DOMAIN expandedCategories = {"P1", "P2"}
    /\ expandedCategories["P1"] /\ ~expandedCategories["P2"]
    /\ serviceLevel # DefaultServiceLevel
    /\ leadTimeChange # 0 /\ demandChange # 0
    /\ vendorFilter # "All"
    /\ DOMAIN abcClassification = {"A1", "B2", "C3"}

\* A for 1, B for 2, C for 3.
classRank(class) == IF class = "A" THEN 1 ELSE IF class = "B" THEN 2 ELSE 3

\* C27: when the record set sold more than 0 units, a classified SKU that sold
\* strictly more than another has a class at least as high, and down the
\* ranked list the classes are a run of A, then of B, then of C.
C27_ClassesMonotone ==
    totalUnitsSold > 0 =>
        /\ \A x, y \in DOMAIN abcClassification :
            unitsSoldOf(x) > unitsSoldOf(y) =>
                classRank(abcClassification[x]) <= classRank(abcClassification[y])
        /\ LET ranked == sortedSKUs(data)
           IN \A i, j \in 1..Len(ranked) :
                i < j => classRank(abcClassification[ranked[i]])
                            <= classRank(abcClassification[ranked[j]])

\* C27 witness: three SKUs that sold different amounts, classified A, B and C
\* in that order.
C27_Witness ==
    /\ totalUnitsSold > 0
    /\ \E x, y, z \in DOMAIN abcClassification :
        /\ unitsSoldOf(x) > unitsSoldOf(y) /\ unitsSoldOf(y) > unitsSoldOf(z)
        /\ abcClassification[x] = "A"
        /\ abcClassification[y] = "B"
        /\ abcClassification[z] = "C"
    /\ Len(activeSKUs) > 0

\* No entry of the sequence occurs twice.
NoDuplicates(seq) == \A i, j \in 1..Len(seq) : seq[i] = seq[j] => i = j

\* C28: after any toggles from the empty selection no SKU is selected twice,
\* one more toggle keeps it so, and toggling a SKU twice in a row gives back
\* the same set of SKUs.
C28_SelectionToggles ==
    /\ NoDuplicates(activeSKUs)
    /\ \A sku \in SKUs :
        /\ NoDuplicates(toggled(activeSKUs, sku))
        /\ (sku \in Range(toggled(activeSKUs, sku))) = (sku \notin Range(activeSKUs))
        /\ Range(toggled(toggled(activeSKUs, sku), sku)) = Range(activeSKUs)

\* C28 witness: two SKUs are selected, and toggling the first of them twice
\* gives the same set in another order.
C28_Witness ==
    /\ Len(activeSKUs) = 2
    /\ toggled(toggled(activeSKUs, activeSKUs[1]), activeSKUs[1]) # activeSKUs
    /\ toggled(activeSKUs, activeSKUs[2]) = <<activeSKUs[1]>>

\* C29: whatever setting the demand slider is moved to, with the records, the
\* selection, the other two sliders and the vendor filter as they are, the
\* engine computes the same safetyStock, reorderPoint, maxStock,
\* purchaseRecommendation and inventoryTurns for every computed SKU, and so
\* the same filtered recommendation list, reorder count and purchase value.
C29_DemandChangeFrame ==
    \A dc \in DemandSettings :
        LET results == processedDataAt(serviceLevel, leadTimeChange, dc)
            filtered == filteredOf(results)
        IN /\ \A sku \in computedSKUs :
                LET after == results[sku]
                    before == processedData[sku]
                IN /\ after.safetyStock = before.safetyStock
                   /\ after.reorderPoint = before.reorderPoint
                   /\ after.maxStock = before.maxStock
                   /\ after.purchaseRecommendation = before.purchaseRecommendation
                   /\ after.inventoryTurns = before.inventoryTurns
           /\ filtered = filteredPurchaseRecommendations
           /\ reorderItemsOf(filtered) = reorderItems
           /\ purchaseValueOf(results, filtered) = purchaseValue

\* C29 witness: the demand slider is away from 0, two SKUs are computed and to
\* reorder, and the forecast of one is not what it is at 0.
C29_Witness ==
    /\ demandChange # 0
    /\ Cardinality(computedSKUs) = 2
    /\ reorderItems > 0 /\ purchaseValue > 0
    /\ \E sku \in computedSKUs :
        locals(sku).forecastedUnits
            # forecastedUnits(datedUnitsSold(sku), datedCount(sku), 0)

\* C30 as claimed: with the records, the selection and the lead-time change
\* as they are, the safety stock the engine computes for a computed SKU does
\* not go down when the service level goes up, over the integers 90 to 99 of
\* the service-level slider.
C30_AsClaimed ==
    \A sku \in computedSKUs :
        \A lower, higher \in ServiceLevels :
            lower <= higher =>
                skuScalarsAt(skuData(sku), lower, leadTimeChange,
                             demandChange).safetyStock
                    <= skuScalarsAt(skuData(sku), higher, leadTimeChange,
                                    demandChange).safetyStock

====
